---- MODULE Spec2Model ----
(***************************************************************************)
(* Weavers of Power battle simulator: the combat resolution engine         *)
(* (engine/combat.py), the turn hooks (engine/turn_hooks.py) and the       *)
(* deck/draw engine (engine/runtime.py), operating on one combatant        *)
(* (engine/runtime_models.py, EnemyInstance).                              *)
(*                                                                         *)
(* Every engine function is an operator of the combatant record that       *)
(* returns the updated combatant together with the value the function      *)
(* returns.  A function that shuffles returns the SET of its outcomes,     *)
(* one per permutation the generator can produce.  The actions apply the   *)
(* operators to the variable `enemy` and store the call, the combatant as  *)
(* it was before the call and the returned value in `log`.                 *)
(*                                                                         *)
(* The driver (app.py) is the page: its handlers are actions on the        *)
(* BattleState, the display order, the selection and the active-turn       *)
(* pointer.  `runs` holds two executions of the turn cycle with a seeded   *)
(* generator; persistence.py is the pair enemy_to_dict, enemy_from_dict,   *)
(* and the save file with its .bak and its .tmp in `disk`, written one     *)
(* file operation at a time.                                               *)
(***************************************************************************)
EXTENDS Integers, Sequences, FiniteSets, TLC

VARIABLES
    enemy,      \* the combatant (EnemyInstance with its DeckState)
    log,        \* the last call: operation, arguments, combatant before, result
    state,      \* app.py: the BattleState of the page, its `enemies` dictionary
    order,      \* app.py: the instance ids in display order
    selected_id,        \* app.py: the selected combatant, or None
    active_turn_id,     \* app.py: the combatant that holds the turn, or None
    turn_in_progress,   \* app.py: whether the active combatant has drawn
    runs,       \* the executions of the turn cycle compared for determinism
    disk        \* persistence.py: the save file, its .bak and its .tmp

\* the variables of a page of the driver
session == <<state, order, selected_id, active_turn_id, turn_in_progress>>

vars == <<enemy, log, state, order, selected_id, active_turn_id, turn_in_progress, runs, disk>>

----------------------------------------------------------------------------
(* Bounds of the model *)

\* largest damage argument of apply_attack (the smallest is -1: a rejected call)
MaxDamage == 4
\* largest damage argument in the specifications of call sequences
SeqMaxDamage == 2
\* the positive amount of an apply_heal argument
MaxHeal == 1
\* guard_current is unbounded below the ceiling; in call sequences heals that would lift it above this are not taken
MaxGuard == 2
\* largest n of a direct draw_cards call (the smallest is -1)
MaxDrawN == 3

\* largest base guard a template of Spec rolls
MaxGuardRoll == 1

\* largest hp maximum of the start states of SpecAny
AnyMaxHp == 2
\* the hp, armor and guard values of the start states of SpecCombat go up to these
CombatMaxHp == 2
CombatMaxArmor == 2
CombatMaxGuard == 3
\* the hp maximum of the start states of SpecTurn, also their largest burn stack
TurnMaxHp == 2
\* number of cards of the combatants of SpecDraw, and their largest draws_base
DrawPoolSize == 3
DrawMaxDraws == 2

\* the hp maximum of the start states of SpecDot
DotMaxHp == 3
\* the latest time of a save in SpecCrash
SaveMaxTime == 2
\* the upper end of the hp and armor ranges of the templates of SpecSpawn is
\* at most this
SpawnMaxHp == 2
\* the seeds and the states of the hidden sources of entropy are 0 .. SeedMax
SeedMax == 4
\* largest damage entered in the attack dialog of a page
SessionMaxDamage == 1
\* the movement of the combatants of a page (odd: halving it rounds)
SessionMovement == 3

\* the sentinel ceiling of guard_current in apply_heal
GuardCeiling == 9999

----------------------------------------------------------------------------
(* Python built-ins *)

Min(a, b) == IF a <= b THEN a ELSE b
Max(a, b) == IF a >= b THEN a ELSE b

\* list * int and list.extend: x repeated n times
RECURSIVE Repeat(_, _)
Repeat(x, n) == IF n <= 0 THEN <<>> ELSE <<x>> \o Repeat(x, n - 1)

\* set(list): the elements of a list
Range(seq) == { seq[i] : i \in DOMAIN seq }

\* random.shuffle(list): every rearrangement of the list is a possible outcome
Shuffles(s) ==
    { [i \in 1..Len(s) |-> s[p[i]]] : p \in Permutations(1..Len(s)) }

\* dict of statuses: a function from the names present to their stack count
NoStatuses == [k \in {} |-> 0]
StatusSet(statuses, k, n) ==
    [x \in (DOMAIN statuses) \cup {k} |-> IF x = k THEN n ELSE statuses[x]]

----------------------------------------------------------------------------
(* engine/combat.py *)

\* armor_after_sunder without the test that there is armor left
armor_after_sunder_unchecked(armor_b, mods) ==
    IF "sunder" \in mods THEN armor_b - 1 ELSE armor_b

\* step 1 of apply_attack: sunder destroys one point of regular armor
armor_after_sunder(armor_b, mods) ==
    IF "sunder" \in mods /\ armor_b > 0 THEN armor_b - 1 ELSE armor_b

\* ignored_regular with pierce bypassing the armor only
ignored_regular_armor_only(guard_now, armor_now, mods) ==
    IF "pierce" \in mods THEN armor_now
    ELSE IF "stab" \in mods THEN 1
    ELSE 0

\* step 2 of apply_attack: the regular reduction the attack bypasses
ignored_regular(guard_now, armor_now, mods) ==
    IF "pierce" \in mods THEN guard_now + armor_now
    ELSE IF "stab" \in mods THEN 1
    ELSE 0

\* step 2 of apply_attack: the magic reduction the attack bypasses
ignored_magic(magic_now, mods) ==
    IF "magic_pierce" \in mods THEN magic_now ELSE 0

\* ignore_allocation taking the ignored amount from armor first, then from guard
ignore_allocation_armor_first(guard_now, armor_now, ignore) ==
    LET ignored_from_armor == Min(armor_now, ignore)
        rest == ignore - ignored_from_armor
        ignored_from_guard == Min(guard_now, rest)
    IN  [guard_eff |-> guard_now - ignored_from_guard,
         armor_eff |-> armor_now - ignored_from_armor]

\* the ignore prioritization: the ignored amount is taken from guard first, then armor
ignore_allocation(guard_now, armor_now, ignore) ==
    LET ignored_from_guard == Min(guard_now, ignore)
        guard_eff == guard_now - ignored_from_guard
        rest == ignore - ignored_from_guard
        ignored_from_armor == Min(armor_now, rest)
    IN  [guard_eff |-> guard_eff, armor_eff |-> armor_now - ignored_from_armor]

\* step 3 of apply_attack: the damage left after the flat reductions
damage_after_fixed(damage, armor_eff, magic_eff) ==
    Max(0, damage - (armor_eff + magic_eff))

\* guard_used spending the whole pool on any attack
guard_used_whole_pool(guard_eff, after_fixed) == guard_eff

\* guard_used spending at most one point of the pool on an attack
guard_used_one_point(guard_eff, after_fixed) == Min(1, Min(guard_eff, after_fixed))

\* step 3 of apply_attack: the part of the remaining damage the guard pool absorbs
guard_used(guard_eff, after_fixed) == Min(guard_eff, after_fixed)

\* hp_after and guard_after of apply_attack
hp_after_attack(hp_b, dmg_to_hp) == Max(0, hp_b - dmg_to_hp)
guard_after_attack(guard_b, used) == Max(0, guard_b - used)

\* attack_statuses replacing the whole dictionary by the paralyzed entry
attack_statuses_replacing(statuses, mods) ==
    IF "paralyse" \in mods THEN [k \in {"paralyzed"} |-> 1] ELSE statuses

\* attack_statuses adding a stack to the paralyzed status instead of setting it
attack_statuses_accumulating(statuses, mods) ==
    IF "paralyse" \in mods
    THEN StatusSet(statuses, "paralyzed",
                   IF "paralyzed" \in DOMAIN statuses THEN statuses["paralyzed"] + 1 ELSE 1)
    ELSE statuses

\* the paralyse modifier: the paralyzed status is set to one stack
attack_statuses(statuses, mods) ==
    IF "paralyse" \in mods THEN StatusSet(statuses, "paralyzed", 1) ELSE statuses

\* attack_rejected refusing a damage of 0 as well
attack_rejected_nonpositive(damage) == damage <= 0

\* the argument check of apply_attack
attack_rejected(damage) == damage < 0

apply_attack(e, damage, mods) ==
    IF attack_rejected(damage)
    THEN [error |-> TRUE, enemy |-> e, ret |-> "ValueError"]
    ELSE
    LET hp_b == e.hp_current
        guard_b == e.guard_current
        armor_b == e.armor_current
        magic_b == e.magic_armor_current
        armor_now == armor_after_sunder(armor_b, mods)
        ign_regular == ignored_regular(guard_b, armor_now, mods)
        ign_magic == ignored_magic(magic_b, mods)
        eff == ignore_allocation(guard_b, armor_now, ign_regular)
        magic_eff == Max(0, magic_b - ign_magic)
        after_fixed == damage_after_fixed(damage, eff.armor_eff, magic_eff)
        used == guard_used(eff.guard_eff, after_fixed)
        dmg_to_hp == after_fixed - used
        hp_after == hp_after_attack(hp_b, dmg_to_hp)
        guard_after == guard_after_attack(guard_b, used)
        after == [e EXCEPT !.hp_current = hp_after,
                           !.guard_current = guard_after,
                           !.armor_current = armor_now,
                           !.statuses = attack_statuses(e.statuses, mods)]
    IN  [error |-> FALSE,
         enemy |-> after,
         ret |-> [action |-> "attack",
                  hp_before |-> hp_b, hp_after |-> after.hp_current,
                  guard_before |-> guard_b, guard_after |-> after.guard_current,
                  armor_before |-> armor_b, armor_after |-> after.armor_current,
                  magic_armor_before |-> magic_b,
                  magic_armor_after |-> after.magic_armor_current,
                  input_damage |-> damage,
                  ignored_regular |-> ign_regular,
                  ignored_magic |-> ign_magic,
                  guarded_total |-> damage - dmg_to_hp,
                  damage_to_hp |-> dmg_to_hp,
                  applied_statuses |->
                      IF "paralyse" \in mods THEN <<"paralyzed">> ELSE <<>>]]

\* heal_rejected rejecting only a call whose amounts are all negative
heal_rejected_all_negative(hp, armor, magic_armor, guard) ==
    hp < 0 /\ armor < 0 /\ magic_armor < 0 /\ guard < 0

\* heal_rejected without the check of the guard amount
heal_rejected_guard_unchecked(hp, armor, magic_armor, guard) ==
    hp < 0 \/ armor < 0 \/ magic_armor < 0

\* the argument check of apply_heal
heal_rejected(hp, armor, magic_armor, guard) ==
    hp < 0 \/ armor < 0 \/ magic_armor < 0 \/ guard < 0

\* heal_clamp taking the larger of the maximum and the restored value
heal_clamp_larger(maximum, current, amount) == Max(maximum, current + amount)

\* heal_clamp without the clamp to the maximum
heal_clamp_unclamped(maximum, current, amount) == current + amount

\* a vital restored by an amount, clamped to its maximum
heal_clamp(maximum, current, amount) == Min(maximum, current + amount)

apply_heal(e, hp, armor, magic_armor, guard) ==
    IF heal_rejected(hp, armor, magic_armor, guard)
    THEN [error |-> TRUE, enemy |-> e, ret |-> "ValueError"]
    ELSE
    LET after == [e EXCEPT
            !.hp_current = heal_clamp(e.hp_max, e.hp_current, hp),
            !.armor_current = heal_clamp(e.armor_max, e.armor_current, armor),
            !.magic_armor_current =
                heal_clamp(e.magic_armor_max, e.magic_armor_current, magic_armor),
            !.guard_current = heal_clamp(GuardCeiling, e.guard_current, guard)]
    IN  [error |-> FALSE,
         enemy |-> after,
         ret |-> [action |-> "heal",
                  hp_before |-> e.hp_current, hp_after |-> after.hp_current,
                  guard_before |-> e.guard_current, guard_after |-> after.guard_current,
                  armor_before |-> e.armor_current, armor_after |-> after.armor_current,
                  magic_armor_before |-> e.magic_armor_current,
                  magic_armor_after |-> after.magic_armor_current]]

----------------------------------------------------------------------------
(* engine/turn_hooks.py *)

get_stacks(statuses, key) ==
    IF key \in DOMAIN statuses THEN statuses[key] ELSE 0

\* dot_damage adding the stack counts as they are, negative ones too
dot_damage_unclamped(statuses) ==
    get_stacks(statuses, "burn") + get_stacks(statuses, "poison")

\* dot_damage counting the burn stacks only
dot_damage_without_poison(statuses) == Max(0, get_stacks(statuses, "burn"))

\* the damage over time of a turn start
dot_damage(statuses) ==
    Max(0, get_stacks(statuses, "burn")) + Max(0, get_stacks(statuses, "poison"))

\* the guard a turn start resets to
\* guard_reset keeping the guard of the turn before when it exceeds the base
guard_reset_keeping_surplus(e) == Max(e.guard_base, e.guard_current)

guard_reset(e) == e.guard_base

on_turn_start(e) ==
    LET dot == dot_damage(e.statuses)
        after == [e EXCEPT
            !.guard_current = guard_reset(e),
            !.hp_current = IF dot > 0 THEN Max(0, e.hp_current - dot)
                           ELSE e.hp_current]
    IN  [enemy |-> after,
         ret |-> [phase |-> "start",
                  hp_before |-> e.hp_current, hp_after |-> after.hp_current,
                  guard_before |-> e.guard_current, guard_after |-> after.guard_current,
                  removed_statuses |-> <<>>,
                  dot_damage |-> dot]]

\* the expiring statuses with the damage-over-time statuses among them
TransientStatuses_with_dots == <<"paralyzed", "slowed", "burn", "poison">>

\* the statuses that expire at the end of a turn, in the order they are tried
TransientStatuses == <<"paralyzed", "slowed">>

on_turn_end(e) ==
    LET removed == SelectSeq(TransientStatuses, LAMBDA k : k \in DOMAIN e.statuses)
        kept == (DOMAIN e.statuses) \ {TransientStatuses[i] : i \in 1..Len(TransientStatuses)}
        after == [e EXCEPT !.statuses = [k \in kept |-> e.statuses[k]]]
    IN  [enemy |-> after,
         ret |-> [phase |-> "end",
                  hp_before |-> e.hp_current, hp_after |-> after.hp_current,
                  guard_before |-> e.guard_current, guard_after |-> after.guard_current,
                  removed_statuses |-> removed,
                  dot_damage |-> 0]]

----------------------------------------------------------------------------
(* engine/models.py: the catalog *)

\* RangeInt.validate: the errors of a range
RangeInt_validate(r) ==
    (IF r.min < 0 \/ r.max < 0 THEN {"range cannot be negative"} ELSE {})
    \cup (IF r.min > r.max THEN {"min > max"} ELSE {})

----------------------------------------------------------------------------
(* engine/runtime.py *)

\* rnd.randint(rng.min, rng.max): every value of the closed range
roll_range(rng) == rng.min .. rng.max

\* the card ids of a sequence of cards, each repeated weight times
RECURSIVE weighted_ids(_)
weighted_ids(cards) ==
    IF cards = <<>> THEN <<>>
    ELSE Repeat(Head(cards).id, Head(cards).weight) \o weighted_ids(Tail(cards))

\* build_deck_card_ids without its second loop: the specials are left out
build_deck_card_ids_without_specials(core_deck, specials) ==
    weighted_ids(core_deck.cards)

\* the card ids of the core deck and then the specials; an empty pool is an error
build_deck_card_ids(core_deck, specials) ==
    weighted_ids(core_deck.cards) \o weighted_ids(specials)

\* the combatants spawn_enemy can return for a template ({} when it raises)
spawn_enemy(template, decks) ==
    IF template.coreDeck \notin DOMAIN decks THEN {}
    ELSE IF build_deck_card_ids(decks[template.coreDeck], template.specials) = <<>> THEN {}
    ELSE
    { [hp_current |-> hp_max, hp_max |-> hp_max,
       armor_current |-> armor_max, armor_max |-> armor_max,
       magic_armor_current |-> magic_max, magic_armor_max |-> magic_max,
       guard_base |-> base_guard, guard_current |-> 0,
       draws_base |-> template.draws, movement |-> template.movement,
       deck_state |-> [draw_pile |-> card_ids, discard_pile |-> <<>>, hand |-> <<>>],
       statuses |-> NoStatuses] :
        hp_max \in roll_range(template.hp),
        armor_max \in roll_range(template.armor),
        magic_max \in roll_range(template.magicArmor),
        base_guard \in roll_range(template.baseGuard),
        card_ids \in Shuffles(build_deck_card_ids(decks[template.coreDeck],
                                                  template.specials)) }

\* reshuffle_needed with the test of the draw pile inverted
reshuffle_needed_inverted(ds) == ds.draw_pile # <<>> /\ ds.discard_pile # <<>>

\* whether _reshuffle_if_needed reshuffles
reshuffle_needed(ds) == ds.draw_pile = <<>> /\ ds.discard_pile # <<>>

\* reshuffle_if_needed without the clearing of the discard pile
reshuffle_keeping_discard(ds) ==
    IF reshuffle_needed(ds)
    THEN { [ds |-> [ds EXCEPT !.draw_pile = pile], happened |-> TRUE] :
           pile \in Shuffles(ds.discard_pile) }
    ELSE { [ds |-> ds, happened |-> FALSE] }

\* the deck states _reshuffle_if_needed can leave, each with the value it returns
reshuffle_if_needed(ds) ==
    IF reshuffle_needed(ds)
    THEN { [ds |-> [ds EXCEPT !.draw_pile = pile, !.discard_pile = <<>>],
            happened |-> TRUE] : pile \in Shuffles(ds.discard_pile) }
    ELSE { [ds |-> ds, happened |-> FALSE] }

\* pull_card reading the front card without removing it from the draw pile
pull_card_keeping(ds) ==
    [ds EXCEPT !.hand = Append(ds.hand, Head(ds.draw_pile))]

\* one card pull: the front of the draw pile goes to the end of the hand
pull_card(ds) ==
    [ds EXCEPT !.draw_pile = Tail(ds.draw_pile),
               !.hand = Append(ds.hand, Head(ds.draw_pile))]

\* the loop of draw_cards with k iterations left.  `steps` lists the deck
\* mutations of the call so far, each with the deck state before and after it.
RECURSIVE draw_loop(_, _, _, _, _)
draw_loop(ds, k, drawn_now, reshuffled_any, steps) ==
    IF k <= 0
    THEN { [ds |-> ds, drawn |-> drawn_now, reshuffled |-> reshuffled_any,
            steps |-> steps] }
    ELSE UNION {
        LET any == r.happened \/ reshuffled_any
            steps_r == IF r.happened
                       THEN Append(steps, [kind |-> "reshuffle", before |-> ds,
                                           after |-> r.ds])
                       ELSE steps
        IN  IF r.ds.draw_pile = <<>>
            THEN { [ds |-> r.ds, drawn |-> drawn_now, reshuffled |-> any,
                    steps |-> steps_r] }
            ELSE draw_loop(pull_card(r.ds), k - 1,
                           Append(drawn_now, Head(r.ds.draw_pile)), any,
                           Append(steps_r, [kind |-> "pull", before |-> r.ds,
                                            after |-> pull_card(r.ds)]))
        : r \in reshuffle_if_needed(ds) }

\* the DrawResult of a call that ended with deck state ds
DrawResult(requested, drawn, reshuffled, ds) ==
    [requested |-> requested, drawn |-> drawn, reshuffled |-> reshuffled,
     draw_pile_after |-> Len(ds.draw_pile),
     discard_pile_after |-> Len(ds.discard_pile),
     hand_after |-> Len(ds.hand)]

\* the argument check of draw_cards
draw_rejected(n) == n < 0

\* the outcomes of draw_cards(enemy, n)
draw_cards(e, n) ==
    IF draw_rejected(n)
    THEN { [error |-> TRUE, enemy |-> e, ret |-> "ValueError", steps |-> <<>>] }
    ELSE { [error |-> FALSE,
            enemy |-> [e EXCEPT !.deck_state = o.ds],
            ret |-> DrawResult(n, o.drawn, o.reshuffled, o.ds),
            steps |-> o.steps] :
           o \in draw_loop(e.deck_state, n, <<>>, FALSE, <<>>) }

\* discard_hand without the clearing of the hand
discard_hand_keeping_hand(ds) ==
    IF ds.hand # <<>>
    THEN [ds EXCEPT !.discard_pile = ds.discard_pile \o ds.hand]
    ELSE ds

\* discard_hand replacing the discard pile by the hand instead of extending it
discard_hand_replacing(ds) ==
    IF ds.hand # <<>>
    THEN [ds EXCEPT !.discard_pile = ds.hand, !.hand = <<>>]
    ELSE ds

\* the hand goes to the end of the discard pile
discard_hand(ds) ==
    IF ds.hand # <<>>
    THEN [ds EXCEPT !.discard_pile = ds.discard_pile \o ds.hand, !.hand = <<>>]
    ELSE ds

end_turn(e) ==
    on_turn_end([e EXCEPT !.deck_state = discard_hand(e.deck_state)]).enemy

\* draw_count without the floor at 0
draw_count_unfloored(e) ==
    IF "paralyzed" \in DOMAIN e.statuses THEN e.draws_base - 1 ELSE e.draws_base

\* the number of cards enemy_turn asks draw_cards for
draw_count(e) ==
    LET draws == IF "paralyzed" \in DOMAIN e.statuses
                 THEN e.draws_base - 1 ELSE e.draws_base
    IN  IF draws < 0 THEN 0 ELSE draws

\* no_draw_when_dead letting a combatant at exactly 0 hp draw
no_draw_when_dead_below_zero(e) == e.hp_current < 0

\* whether enemy_turn skips the draw
no_draw_when_dead(e) == e.hp_current <= 0

\* the outcomes of enemy_turn(enemy)
enemy_turn(e) ==
    LET started == on_turn_start(e).enemy
    IN  IF no_draw_when_dead(started)
        THEN { [error |-> FALSE, enemy |-> started,
                ret |-> DrawResult(0, <<>>, FALSE, started.deck_state),
                steps |-> <<>>] }
        ELSE draw_cards(started, draw_count(started))

----------------------------------------------------------------------------
(* The catalog and the inputs of the model *)

AttackMods == {"stab", "pierce", "magic_pierce", "sunder", "paralyse"}

\* the arguments tried in the specifications of call sequences; -1 is rejected
SeqDamages == -1 .. SeqMaxDamage
\* the heal amounts tried: a rejected one, none, and a positive one
HealAmounts == {-1, 0, MaxHeal}
DrawCounts == -1 .. MaxDrawN
\* the damage arguments tried on single calls; 5 and 10 are the damages of the documented examples
Damages == (-1 .. MaxDamage) \cup {5, 10}

\* two core decks of one card, of weight 1 and of weight 2, and three special
\* cards of weight 1
Decks ==
    [core |-> [id |-> "core", cards |-> << [id |-> "c1", weight |-> 1] >>],
     twin |-> [id |-> "twin", cards |-> << [id |-> "c1", weight |-> 2] >>]]
Specials == << [id |-> "s1", weight |-> 1],
               [id |-> "s2", weight |-> 1],
               [id |-> "s3", weight |-> 1] >>

\* the ranges within 0..hi that RangeInt.validate accepts, among all with ends in -1..hi
ValidRanges(hi) ==
    { r \in [min : -1 .. hi, max : -1 .. hi] : RangeInt_validate(r) = {} }

\* the base-guard ranges of validated templates: validated like the other ranges
ValidatedBaseGuards == ValidRanges(MaxGuardRoll)

\* the validated templates the combatants of Spec are spawned from
Templates ==
    { [hp |-> [min |-> 1, max |-> 1],
       armor |-> [min |-> 1, max |-> 1],
       magicArmor |-> [min |-> 0, max |-> 0],
       baseGuard |-> baseGuard, draws |-> 2, movement |-> 6,
       coreDeck |-> "core", specials |-> Specials] :
        baseGuard \in ValidatedBaseGuards }

\* the validated templates the combatants of SpecDeck are spawned from: their
\* pool holds one card id twice
DeckTemplates ==
    { [hp |-> [min |-> 1, max |-> 1],
       armor |-> [min |-> 0, max |-> 0],
       magicArmor |-> [min |-> 0, max |-> 0],
       baseGuard |-> [min |-> 0, max |-> 0], draws |-> draws, movement |-> 6,
       coreDeck |-> "twin", specials |-> Specials] :
        draws \in 1 .. DrawMaxDraws }

\* the status dictionaries with the given stack counts (0 stands for an absent status)
StatusesOf(burn, poison, paralyzed) ==
    LET present == (IF burn # 0 THEN {"burn"} ELSE {})
                   \cup (IF poison # 0 THEN {"poison"} ELSE {})
                   \cup (IF paralyzed # 0 THEN {"paralyzed"} ELSE {})
    IN  [k \in present |-> IF k = "burn" THEN burn
                           ELSE IF k = "poison" THEN poison ELSE paralyzed]

\* a combatant that was not spawned: any vitals within their bounds, any guard
Combatant(hp, hp_max, armor, armor_max, magic, magic_max, guard_base, guard, draws, statuses, deck_state) ==
    [hp_current |-> hp, hp_max |-> hp_max,
     armor_current |-> armor, armor_max |-> armor_max,
     magic_armor_current |-> magic, magic_armor_max |-> magic_max,
     guard_base |-> guard_base, guard_current |-> guard,
     draws_base |-> draws, movement |-> 6,
     deck_state |-> deck_state, statuses |-> statuses]

\* the start states of SpecAny: the three vitals within 0..max, guard and stacks of any sign
AnyCombatants ==
    { c \in
        { Combatant(hp, hp_max, armor, armor_max, magic, 1, guard_base, guard, 1,
                    StatusesOf(burn, 0, paralyzed),
                    [draw_pile |-> <<"c1">>, discard_pile |-> <<>>, hand |-> <<>>]) :
            hp_max \in 1 .. AnyMaxHp, hp \in 0 .. AnyMaxHp,
            armor_max \in 0 .. 1, armor \in 0 .. 1, magic \in 0 .. 1,
            guard_base \in {-1, 1}, guard \in -1 .. 1,
            burn \in {-1, 0, 1}, paralyzed \in {0, 1} } :
        c.hp_current <= c.hp_max /\ c.armor_current <= c.armor_max }

\* the start states of SpecCombat: every vital and guard value of a small combatant
CombatCombatants ==
    { Combatant(hp, CombatMaxHp, armor, CombatMaxArmor, magic, 1, 1, guard, 1,
                StatusesOf(0, 0, paralyzed),
                [draw_pile |-> <<"c1">>, discard_pile |-> <<>>, hand |-> <<>>]) :
        hp \in 0 .. CombatMaxHp, armor \in 0 .. CombatMaxArmor, magic \in 0 .. 1,
        guard \in 0 .. CombatMaxGuard, paralyzed \in 0 .. 2 }

\* a status dictionary with at most one entry: opt is {} (absent) or {stacks}
StatusEntry(name, opt) ==
    [k \in (IF opt = {} THEN {} ELSE {name}) |-> CHOOSE n \in opt : TRUE]

\* the start states of SpecTurn: statuses present and absent, with stack counts
\* of any sign, a guard that differs from the base guard or sits at the
\* ceiling, and cards in every zone
TurnCombatants ==
    { Combatant(hp, TurnMaxHp, armor, 1, magic, 1, 1, guard, 1,
                StatusEntry("burn", burn) @@ StatusEntry("poison", poison)
                    @@ StatusEntry("paralyzed", paralyzed) @@ StatusEntry("slowed", slowed),
                [draw_pile |-> <<"c1">>, discard_pile |-> <<"s1">>, hand |-> hand]) :
        hp \in 0 .. TurnMaxHp, armor \in 0 .. 1, magic \in 0 .. 1,
        guard \in {0, 2, GuardCeiling},
        burn \in {{}, {-1}, {0}, {TurnMaxHp}}, poison \in {{}, {1}},
        paralyzed \in {{}, {2}}, slowed \in {{}, {1}},
        hand \in {<<>>, <<"s2", "s3">>} }

\* the ways to cut a sequence into three consecutive zones
ZoneSplits(cards) ==
    { [draw_pile |-> SubSeq(cards, 1, i),
       discard_pile |-> SubSeq(cards, i + 1, Max(i, j)),
       hand |-> SubSeq(cards, Max(i, j) + 1, Len(cards))] :
        i \in 0 .. Len(cards), j \in 0 .. Len(cards) }

\* the cards of the combatants of SpecDraw
DrawPool == [i \in 1 .. DrawPoolSize |-> <<"c1", "s1", "s2", "s3">>[i]]

\* the start states of SpecDraw: every arrangement of the pool over the three zones
DrawCombatants ==
    { Combatant(hp, 1, 0, 0, 0, 0, 0, 0, draws,
                StatusesOf(burn, 0, paralyzed), zones) :
        hp \in 0 .. 1, draws \in 0 .. DrawMaxDraws,
        burn \in 0 .. 1, paralyzed \in 0 .. 1,
        zones \in UNION { ZoneSplits(cards) : cards \in Shuffles(DrawPool) } }

----------------------------------------------------------------------------
(* The actions: one per engine operation, applied to the combatant.  The  *)
(* mode says what the model keeps of a call: "quiet" nothing; "observed"   *)
(* the call, the combatant before it and the result, in log; "single" the  *)
(* same, and no further call is made after an observed one.                *)

Idle == [op |-> "idle"]

\* Python's None
None == "None"

\* a file that does not exist, a file with its text (the JSON text of a value,
\* complete or cut short), and the save directory without the three files
Absent == [exists |-> FALSE]
File(value, complete) ==
    [exists |-> TRUE, text |-> [value |-> value, complete |-> complete]]
NoFiles == [path |-> Absent, bak |-> Absent, tmp |-> Absent]

\* the page of the driver as index() constructs it: an empty BattleState, no
\* order, nothing selected, no active turn
NoSession ==
    /\ state = [enemies |-> <<>>]
    /\ order = <<>>
    /\ selected_id = None
    /\ active_turn_id = None
    /\ turn_in_progress = FALSE

Ready(mode) == mode = "single" => log = Idle
Observe(mode, full) == IF mode = "quiet" THEN Idle ELSE full

ApplyAttack(mode, damages) ==
    /\ Ready(mode)
    /\ UNCHANGED <<session, runs, disk>>
    /\ \E damage \in damages, mods \in SUBSET AttackMods :
        LET r == apply_attack(enemy, damage, mods)
        IN  /\ enemy' = r.enemy
            /\ log' = Observe(mode,
                   [op |-> "apply_attack", error |-> r.error,
                    args |-> [damage |-> damage, mods |-> mods],
                    before |-> enemy, ret |-> r.ret])

ApplyHeal(mode) ==
    /\ Ready(mode)
    /\ UNCHANGED <<session, runs, disk>>
    /\ \E hp \in HealAmounts, armor \in HealAmounts,
          magic_armor \in HealAmounts, guard \in HealAmounts :
        LET r == apply_heal(enemy, hp, armor, magic_armor, guard)
        IN  /\ mode = "quiet" => (guard <= 0 \/ r.enemy.guard_current <= MaxGuard)
            /\ enemy' = r.enemy
            /\ log' = Observe(mode,
                   [op |-> "apply_heal", error |-> r.error,
                    args |-> [hp |-> hp, armor |-> armor,
                              magic_armor |-> magic_armor, guard |-> guard],
                    before |-> enemy, ret |-> r.ret])

OnTurnStart(mode) ==
    /\ Ready(mode)
    /\ UNCHANGED <<session, runs, disk>>
    /\ LET r == on_turn_start(enemy)
       IN  /\ enemy' = r.enemy
           /\ log' = Observe(mode,
                  [op |-> "on_turn_start", error |-> FALSE,
                   before |-> enemy, ret |-> r.ret])

OnTurnEnd(mode) ==
    /\ Ready(mode)
    /\ UNCHANGED <<session, runs, disk>>
    /\ LET r == on_turn_end(enemy)
       IN  /\ enemy' = r.enemy
           /\ log' = Observe(mode,
                  [op |-> "on_turn_end", error |-> FALSE,
                   before |-> enemy, ret |-> r.ret])

DrawCards(mode) ==
    /\ Ready(mode)
    /\ UNCHANGED <<session, runs, disk>>
    /\ \E n \in DrawCounts :
        \E r \in draw_cards(enemy, n) :
            /\ enemy' = r.enemy
            /\ log' = Observe(mode,
                   [op |-> "draw_cards", error |-> r.error, args |-> [n |-> n],
                    before |-> enemy, ret |-> r.ret, steps |-> r.steps])

EnemyTurn(mode) ==
    /\ Ready(mode)
    /\ UNCHANGED <<session, runs, disk>>
    /\ \E r \in enemy_turn(enemy) :
        /\ enemy' = r.enemy
        /\ log' = Observe(mode,
               [op |-> "enemy_turn", error |-> r.error,
                before |-> enemy, ret |-> r.ret, steps |-> r.steps])

EndTurn(mode) ==
    /\ Ready(mode)
    /\ UNCHANGED <<session, runs, disk>>
    /\ enemy' = end_turn(enemy)
    /\ log' = Observe(mode,
           [op |-> "end_turn", error |-> FALSE, before |-> enemy])

\* any sequence of engine calls
Next ==
    \/ ApplyAttack("quiet", SeqDamages)
    \/ ApplyHeal("quiet")
    \/ OnTurnStart("quiet")
    \/ OnTurnEnd("quiet")
    \/ DrawCards("quiet")
    \/ EnemyTurn("quiet")
    \/ EndTurn("quiet")

\* a single engine call, observed
NextCall ==
    \/ ApplyAttack("single", Damages)
    \/ ApplyHeal("single")
    \/ OnTurnStart("single")
    \/ OnTurnEnd("single")
    \/ DrawCards("single")
    \/ EnemyTurn("single")
    \/ EndTurn("single")

\* a single call of the draw engine, observed
NextDraw ==
    \/ DrawCards("single")
    \/ EnemyTurn("single")
    \/ EndTurn("single")

\* a single engine call, observed, with the damages of the call sequences
NextTurnCall ==
    \/ ApplyAttack("single", SeqDamages)
    \/ ApplyHeal("single")
    \/ OnTurnStart("single")
    \/ OnTurnEnd("single")
    \/ DrawCards("single")
    \/ EnemyTurn("single")
    \/ EndTurn("single")

\* any sequence of turn operations, each observed
NextTurns ==
    \/ OnTurnStart("observed")
    \/ EnemyTurn("observed")
    \/ EndTurn("observed")
    \/ OnTurnEnd("observed")

\* any sequence of calls of the draw engine, each observed
NextDeck ==
    \/ DrawCards("observed")
    \/ EnemyTurn("observed")
    \/ EndTurn("observed")

----------------------------------------------------------------------------
(* The specifications *)

\* Spec: a combatant spawned from a validated template, under any sequence of calls
Init ==
    /\ enemy \in UNION { spawn_enemy(t, Decks) : t \in Templates }
    /\ log = Idle
    /\ NoSession /\ runs = <<>> /\ disk = NoFiles

Spec == Init /\ [][Next]_vars

\* SpecDeck: a combatant spawned with a pool that holds a card id twice, under any
\* sequence of observed draw-engine calls
InitDeck ==
    /\ enemy \in UNION { spawn_enemy(t, Decks) : t \in DeckTemplates }
    /\ log = Idle
    /\ NoSession /\ runs = <<>> /\ disk = NoFiles

SpecDeck == InitDeck /\ [][NextDeck]_vars

\* SpecAny: any combatant whose three vitals are within their bounds, under any
\* sequence of calls
InitAny ==
    /\ enemy \in AnyCombatants
    /\ log = Idle
    /\ NoSession /\ runs = <<>> /\ disk = NoFiles

SpecAny == InitAny /\ [][Next]_vars

\* SpecCombat: one observed call on a combatant with any vitals and guard
InitCombat ==
    /\ enemy \in CombatCombatants
    /\ log = Idle
    /\ NoSession /\ runs = <<>> /\ disk = NoFiles

SpecCombat == InitCombat /\ [][NextCall]_vars

\* SpecDraw: one observed draw-engine call on a combatant with any arrangement of its cards
InitDraw ==
    /\ enemy \in DrawCombatants
    /\ log = Idle
    /\ NoSession /\ runs = <<>> /\ disk = NoFiles

SpecDraw == InitDraw /\ [][NextDraw]_vars

\* SpecTurn: one observed call on a combatant with statuses and cards in hand
InitTurn ==
    /\ enemy \in TurnCombatants
    /\ log = Idle
    /\ NoSession /\ runs = <<>> /\ disk = NoFiles

SpecTurn == InitTurn /\ [][NextTurnCall]_vars

\* SpecTurns: a combatant spawned from a validated template, under any sequence
\* of observed turn operations
SpecTurns == Init /\ [][NextTurns]_vars

----------------------------------------------------------------------------
(* Turn after turn: every turn is an enemy_turn closed by end_turn, or the  *)
(* no-draw turn, on_turn_start closed by on_turn_end                        *)

\* the start states of SpecDot: a living combatant between two turns with at
\* least one stack of burn or poison and three cards
DotCombatants ==
    { c \in
        { Combatant(hp, DotMaxHp, 0, 0, 0, 0, 1, 0, 1,
                    StatusEntry("burn", burn) @@ StatusEntry("poison", poison),
                    [draw_pile |-> <<"c1">>, discard_pile |-> <<"s1", "s2">>,
                     hand |-> <<>>]) :
            hp \in 1 .. DotMaxHp, burn \in {{}, {1}, {2}}, poison \in {{}, {1}} } :
        DOMAIN c.statuses # {} }

\* no turn is open: none was started yet, or the last one was closed
BetweenTurns == log.op \in {"idle", "end_turn", "on_turn_end"}

DotEnemyTurn == BetweenTurns /\ EnemyTurn("observed")
DotEndTurn == log.op = "enemy_turn" /\ EndTurn("observed")
DotTurnStart == BetweenTurns /\ OnTurnStart("observed")
DotTurnEnd == log.op = "on_turn_start" /\ OnTurnEnd("observed")

NextDot == DotEnemyTurn \/ DotEndTurn \/ DotTurnStart \/ DotTurnEnd

InitDot ==
    /\ enemy \in DotCombatants
    /\ log = Idle
    /\ NoSession /\ runs = <<>> /\ disk = NoFiles

\* SpecDot: turns are taken again and again
SpecDot == InitDot /\ [][NextDot]_vars /\ WF_vars(NextDot)

----------------------------------------------------------------------------
(* engine/runtime.py: one call of spawn_enemy *)

\* _parse_range: any two integers become a range, here those of 0 .. hi; the
\* base guard of a template is parsed and not validated
ParsedRanges(hi) == [min : 0 .. hi, max : 0 .. hi]

\* the templates handed to spawn_enemy: ranges of one and of two values, a base
\* guard range as parsed (min > max among them), a core deck of weight 1, one
\* of weight 2, and one that is not among the decks
SpawnTemplates ==
    { [hp |-> [min |-> 1, max |-> SpawnMaxHp],
       armor |-> [min |-> 0, max |-> SpawnMaxHp - 1],
       magicArmor |-> [min |-> 1, max |-> 1],
       baseGuard |-> baseGuard, draws |-> 2, movement |-> 6,
       coreDeck |-> coreDeck, specials |-> Specials] :
        baseGuard \in ParsedRanges(MaxGuardRoll),
        coreDeck \in (DOMAIN Decks) \cup {"lost"} }

\* spawn_enemy(template, Decks): the combatant it returns is kept in enemy; when
\* it raises there is nothing to keep
SpawnEnemy(mode) ==
    /\ Ready(mode)
    /\ UNCHANGED <<session, runs, disk>>
    /\ \E template \in SpawnTemplates :
        IF spawn_enemy(template, Decks) = {}
        THEN /\ log' = [op |-> "spawn_enemy", template |-> template, error |-> TRUE]
             /\ UNCHANGED enemy
        ELSE \E e \in spawn_enemy(template, Decks) :
             /\ log' = [op |-> "spawn_enemy", template |-> template, error |-> FALSE]
             /\ enemy' = e

NextSpawn == SpawnEnemy("single")

\* SpecSpawn: no combatant yet, and one call of spawn_enemy
InitSpawn ==
    /\ enemy = None
    /\ log = Idle
    /\ NoSession /\ runs = <<>> /\ disk = NoFiles

SpecSpawn == InitSpawn /\ [][NextSpawn]_vars

----------------------------------------------------------------------------
(* engine/runtime.py, the random choices made by a generator.  A generator  *)
(* is its internal state x; every number it hands out advances the state   *)
(* and depends on nothing else.  The operators below are those above with  *)
(* the choice made by the generator; each returns the generator's state.   *)

\* one step of the generator: its next state
rnd_next(x) == (7 * x + 3) % 31

\* rnd._randbelow(n): a number of 0 .. n - 1
randbelow(x, n) == [x |-> rnd_next(x), v |-> rnd_next(x) % n]

\* rnd.randint(a, b), as roll_range calls it
randint(x, a, b) ==
    LET r == randbelow(x, b - a + 1) IN [x |-> r.x, v |-> a + r.v]

Swap(s, i, j) ==
    [k \in DOMAIN s |-> IF k = i THEN s[j] ELSE IF k = j THEN s[i] ELSE s[k]]

\* rnd.shuffle(s) from position i down: position i is swapped with one of 1 .. i
RECURSIVE shuffle_from(_, _, _)
shuffle_from(x, s, i) ==
    IF i < 2 THEN [x |-> x, v |-> s]
    ELSE LET r == randbelow(x, i)
         IN  shuffle_from(r.x, Swap(s, i, r.v + 1), i - 1)

shuffle(x, s) == shuffle_from(x, s, Len(s))

\* `rnd or random`, `rnd or random.Random()` with the passed generator dropped
generator_of_ignoring_rnd(rnd, hidden) == [given |-> FALSE, x |-> hidden]

\* `rnd or random` and `rnd or random.Random()`: the generator a call uses is
\* the one passed to it, and without one the process-wide generator or a fresh
\* one, whose state is the hidden entropy of the run
generator_of(rnd, hidden) ==
    IF rnd.given THEN rnd ELSE [given |-> FALSE, x |-> hidden]

\* spawn_enemy with the generator at state x
spawn_enemy_rnd(template, decks, x) ==
    IF template.coreDeck \notin DOMAIN decks
    THEN [error |-> TRUE, x |-> x]
    ELSE LET hp_max == randint(x, template.hp.min, template.hp.max)
             armor_max == randint(hp_max.x, template.armor.min, template.armor.max)
             magic_max == randint(armor_max.x, template.magicArmor.min,
                                  template.magicArmor.max)
             base_guard == randint(magic_max.x, template.baseGuard.min,
                                   template.baseGuard.max)
             card_ids == shuffle(base_guard.x,
                                 build_deck_card_ids(decks[template.coreDeck],
                                                     template.specials))
         IN  [error |-> FALSE, x |-> card_ids.x,
              enemy |->
                [hp_current |-> hp_max.v, hp_max |-> hp_max.v,
                 armor_current |-> armor_max.v, armor_max |-> armor_max.v,
                 magic_armor_current |-> magic_max.v,
                 magic_armor_max |-> magic_max.v,
                 guard_base |-> base_guard.v, guard_current |-> 0,
                 draws_base |-> template.draws, movement |-> template.movement,
                 deck_state |-> [draw_pile |-> card_ids.v, discard_pile |-> <<>>,
                                 hand |-> <<>>],
                 statuses |-> NoStatuses]]

\* _reshuffle_if_needed with the generator at state x
reshuffle_if_needed_rnd(ds, x) ==
    IF reshuffle_needed(ds)
    THEN LET pile == shuffle(x, ds.discard_pile)
         IN  [ds |-> [ds EXCEPT !.draw_pile = pile.v, !.discard_pile = <<>>],
              happened |-> TRUE, x |-> pile.x]
    ELSE [ds |-> ds, happened |-> FALSE, x |-> x]

\* the loop of draw_cards with k iterations left and the generator at state x
RECURSIVE draw_loop_rnd(_, _, _, _, _)
draw_loop_rnd(ds, k, drawn_now, reshuffled_any, x) ==
    IF k <= 0
    THEN [ds |-> ds, drawn |-> drawn_now, reshuffled |-> reshuffled_any, x |-> x]
    ELSE LET r == reshuffle_if_needed_rnd(ds, x)
             any == r.happened \/ reshuffled_any
         IN  IF r.ds.draw_pile = <<>>
             THEN [ds |-> r.ds, drawn |-> drawn_now, reshuffled |-> any, x |-> r.x]
             ELSE draw_loop_rnd(pull_card(r.ds), k - 1,
                                Append(drawn_now, Head(r.ds.draw_pile)), any, r.x)

\* draw_cards with the generator at state x
draw_cards_rnd(e, n, x) ==
    IF draw_rejected(n)
    THEN [error |-> TRUE, enemy |-> e, ret |-> "ValueError", x |-> x]
    ELSE LET o == draw_loop_rnd(e.deck_state, n, <<>>, FALSE, x)
         IN  [error |-> FALSE,
              enemy |-> [e EXCEPT !.deck_state = o.ds],
              ret |-> DrawResult(n, o.drawn, o.reshuffled, o.ds),
              x |-> o.x]

\* enemy_turn with the generator at state x
enemy_turn_rnd(e, x) ==
    LET started == on_turn_start(e).enemy
    IN  IF no_draw_when_dead(started)
        THEN [error |-> FALSE, enemy |-> started,
              ret |-> DrawResult(0, <<>>, FALSE, started.deck_state), x |-> x]
        ELSE draw_cards_rnd(started, draw_count(started), x)

----------------------------------------------------------------------------
(* Two executions of spawn_enemy, enemy_turn, end_turn, enemy_turn *)

Seeds == 0 .. SeedMax

\* the templates of the executions: the second turn reshuffles when draws is 3
CycleTemplates ==
    { [hp |-> [min |-> 1, max |-> 2],
       armor |-> [min |-> 0, max |-> 1],
       magicArmor |-> [min |-> 0, max |-> 0],
       baseGuard |-> [min |-> 0, max |-> MaxGuardRoll], draws |-> draws,
       movement |-> 6, coreDeck |-> "core", specials |-> Specials] :
        draws \in {2, 3} }

\* an execution before its first call: the template, the generator passed to
\* every call (none when given is false), the entropy outside it (the
\* process-wide generator, os.urandom behind uuid4), no combatant yet
Execution(template, given, seed, hidden) ==
    [pc |-> "spawn_enemy", template |-> template,
     rnd |-> [given |-> given, x |-> seed], hidden |-> hidden,
     instance_id |-> None, enemy |-> None, drawn |-> <<>>]

\* the state of the passed generator and of the hidden entropy after a call
\* that left the generator it used at state x
After(run, x) ==
    IF generator_of(run.rnd, run.hidden).given
    THEN [run EXCEPT !.rnd.x = x]
    ELSE [run EXCEPT !.hidden = x]

\* the next call of an execution
Call(run) ==
    LET g == generator_of(run.rnd, run.hidden)
    IN  IF run.pc = "spawn_enemy"
        THEN LET r == spawn_enemy_rnd(run.template, Decks, g.x)
                 a == After(run, r.x)
             IN  [a EXCEPT !.pc = "enemy_turn", !.enemy = r.enemy,
                           !.instance_id = rnd_next(a.hidden),
                           !.hidden = rnd_next(a.hidden)]
        ELSE IF run.pc \in {"enemy_turn", "enemy_turn again"}
        THEN LET r == enemy_turn_rnd(run.enemy, g.x)
             IN  [After(run, r.x) EXCEPT
                      !.pc = IF run.pc = "enemy_turn" THEN "end_turn" ELSE "done",
                      !.enemy = r.enemy,
                      !.drawn = Append(run.drawn, r.ret.drawn)]
        ELSE [run EXCEPT !.pc = "enemy_turn again", !.enemy = end_turn(run.enemy)]

RunCall(i) ==
    /\ runs[i].pc # "done"
    /\ runs' = [runs EXCEPT ![i] = Call(runs[i])]
    /\ UNCHANGED <<enemy, log, session, disk>>

NextCycle == \E i \in {1, 2} : RunCall(i)

\* SpecCycle: two executions on the same template, both with a generator of
\* the same seed or both without one, each with its own hidden entropy
InitCycle ==
    /\ enemy = None
    /\ log = Idle
    /\ NoSession /\ disk = NoFiles
    /\ \E template \in CycleTemplates, given \in BOOLEAN, seed \in Seeds :
       \E hidden1 \in Seeds, hidden2 \in Seeds :
        runs = << Execution(template, given, seed, hidden1),
                  Execution(template, given, seed, hidden2) >>

SpecCycle == InitCycle /\ [][NextCycle]_vars

----------------------------------------------------------------------------
(* engine/runtime.py: the battle container *)

\* a dictionary without keys
EmptyDict == [k \in {} |-> None]

\* d[k] = v on a dictionary
Assign(d, k, v) == [x \in (DOMAIN d) \cup {k} |-> IF x = k THEN v ELSE d[x]]

\* add_enemy storing the combatant without looking for its id
add_enemy_overwriting(enemies, e) ==
    [error |-> FALSE, enemies |-> Assign(enemies, e.instance_id, e)]

\* BattleState.add_enemy: an instance_id already present raises ValueError
add_enemy(enemies, e) ==
    IF e.instance_id \in DOMAIN enemies
    THEN [error |-> TRUE, enemies |-> enemies]
    ELSE [error |-> FALSE, enemies |-> Assign(enemies, e.instance_id, e)]

\* BattleState.remove_enemy: pop with a default, an absent id is no error
remove_enemy(enemies, instance_id) ==
    [k \in (DOMAIN enemies) \ {instance_id} |-> enemies[k]]

----------------------------------------------------------------------------
(* app.py: the driver.  A page holds a BattleState, the display order, the *)
(* selection and the active-turn pointer; every handler runs to completion. *)
(* Names, images and loot are presentation and are left out.               *)

\* the instance ids uuid_short can return
Ids == {"a", "b"}
\* the ids of a page in the given mode: "roster" calls are observed calls on a
\* page with room for a third combatant, a custom enemy or a player
IdsOf(mode) == IF mode = "roster" THEN Ids \cup {"c"} ELSE Ids

\* the cards of the catalog by id, with their effects
card_index ==
    [c1 |-> << [type |-> "attack", amount |-> 1] >>,
     s1 |-> << [type |-> "guard", amount |-> 1] >>,
     s2 |-> << [type |-> "attack", amount |-> 2] >>,
     s3 |-> << [type |-> "attack", amount |-> 1] >>]

\* is_player taking nobody for a player
is_player_nobody(e) == FALSE

is_player(e) == e.template_id = "player"

\* effective_movement with a ceiling division in place of the floor division
effective_movement_rounding_up(e) ==
    IF "slowed" \in DOMAIN e.statuses
    THEN Max(0, (e.movement + 1) \div 2)
    ELSE e.movement

effective_movement(e) ==
    IF "slowed" \in DOMAIN e.statuses
    THEN Max(0, e.movement \div 2)
    ELSE e.movement

\* add_status_stack: the stacks are added to those present
add_status_stack(e, name, stacks) ==
    [e EXCEPT !.statuses = StatusSet(e.statuses, name, get_stacks(e.statuses, name) + stacks)]

\* set_transient_status: one stack, whatever was there
set_transient_status(e, name) ==
    [e EXCEPT !.statuses = StatusSet(e.statuses, name, 1)]

\* spawn_custom_enemy: the vitals as entered, the shuffled core deck as draw
\* pile, no base guard
spawn_custom_enemy(inst_id, hp, armor, magic_armor, draws, movement, core_deck_id) ==
    { [instance_id |-> inst_id, template_id |-> "custom",
       hp_current |-> hp, hp_max |-> hp,
       armor_current |-> armor, armor_max |-> armor,
       magic_armor_current |-> magic_armor, magic_armor_max |-> magic_armor,
       guard_base |-> 0, guard_current |-> 0,
       draws_base |-> draws, movement |-> movement,
       deck_state |-> [draw_pile |-> pile, discard_pile |-> <<>>, hand |-> <<>>],
       statuses |-> NoStatuses] :
        pile \in Shuffles(weighted_ids(Decks[core_deck_id].cards)) }

\* spawn_player: an entry without combat values and without cards
spawn_player(inst_id) ==
    [instance_id |-> inst_id, template_id |-> "player",
     hp_current |-> 0, hp_max |-> 0,
     armor_current |-> 0, armor_max |-> 0,
     magic_armor_current |-> 0, magic_armor_max |-> 0,
     guard_base |-> 0, guard_current |-> 0,
     draws_base |-> 0, movement |-> 0,
     deck_state |-> [draw_pile |-> <<>>, discard_pile |-> <<>>, hand |-> <<>>],
     statuses |-> NoStatuses]

\* ensure_selected: the selection after it
ensure_selected(sel, enemies, ord) ==
    LET kept == IF sel # None /\ sel \notin DOMAIN enemies THEN None ELSE sel
    IN  IF kept = None /\ ord # <<>> THEN ord[1] ELSE kept

\* the position of an id in the order (order.index)
IndexOf(ord, iid) == CHOOSE i \in 1 .. Len(ord) : ord[i] = iid /\ \A j \in 1 .. i - 1 : ord[j] # iid

\* select_next_in_order stopping at the last entry instead of wrapping around
select_next_in_order_stopping(sel, ord) ==
    IF ord = <<>> THEN None
    ELSE IF \A i \in 1 .. Len(ord) : ord[i] # sel THEN ord[1]
    ELSE ord[Min(IndexOf(ord, sel) + 1, Len(ord))]

\* select_next_in_order: the selection after it
select_next_in_order(sel, ord) ==
    IF ord = <<>> THEN None
    ELSE IF \A i \in 1 .. Len(ord) : ord[i] # sel THEN ord[1]
    ELSE ord[(IndexOf(ord, sel) % Len(ord)) + 1]

\* move_in_order exchanging the entry with the first or the last one
move_in_order_to_the_end(ord, iid, direction) ==
    IF \A i \in 1 .. Len(ord) : ord[i] # iid THEN ord
    ELSE LET i == IndexOf(ord, iid)
             j == IF direction < 0 THEN 1 ELSE Len(ord)
         IN  [ord EXCEPT ![i] = ord[j], ![j] = ord[i]]

\* move_in_order: the order after it
move_in_order(ord, iid, direction) ==
    IF \A i \in 1 .. Len(ord) : ord[i] # iid THEN ord
    ELSE LET i == IndexOf(ord, iid)
             j == i + direction
         IN  IF j < 1 \/ j > Len(ord) THEN ord
             ELSE [ord EXCEPT ![i] = ord[j], ![j] = ord[i]]

\* order.remove: the first occurrence goes
order_remove(ord, iid) ==
    IF \A i \in 1 .. Len(ord) : ord[i] # iid THEN ord
    ELSE LET i == IndexOf(ord, iid)
         IN  SubSeq(ord, 1, i - 1) \o SubSeq(ord, i + 1, Len(ord))

\* the guard of the guard cards among the drawn ones, healed one effect at a time
RECURSIVE apply_guard_cards(_, _)
apply_guard_cards(e, effects) ==
    IF effects = <<>> THEN e
    ELSE apply_guard_cards(
            IF Head(effects).type = "guard"
            THEN apply_heal(e, 0, 0, 0, Head(effects).amount).enemy
            ELSE e,
            Tail(effects))

\* the effects of a list of drawn cards, in order; unknown card ids have none
RECURSIVE drawn_effects(_)
drawn_effects(drawn) ==
    IF drawn = <<>> THEN <<>>
    ELSE (IF Head(drawn) \in DOMAIN card_index THEN card_index[Head(drawn)] ELSE <<>>)
         \o drawn_effects(Tail(drawn))

\* the inputs of the driver in the model
\* the damages entered in the attack dialog
SessionDamages == 0 .. SessionMaxDamage
\* the status checkboxes of the attack dialog
AttackEffects == {"paralyse", "burn", "poison", "slow"}
\* the checkboxes ticked in the call sequences of a page
SessionEffects == {{}, {"paralyse"}}
\* the loot entries of the template: up to two gold pieces and a ring
TemplateLoot ==
    << [type |-> "currency", kind |-> "gp", min |-> 0, max |-> 2],
       [type |-> "other", text |-> "ring"] >>
\* the template of the catalog of the page
SessionTemplates ==
    { [id |-> "goblin",
       hp |-> [min |-> 1, max |-> 1],
       armor |-> [min |-> 0, max |-> 0],
       magicArmor |-> [min |-> 0, max |-> 0],
       baseGuard |-> [min |-> 1, max |-> 1], draws |-> 1, movement |-> 3,
       coreDeck |-> "core", specials |-> Specials, loot |-> TemplateLoot] }

\* what the model keeps of a handler call: the handler, how it ended ("done",
\* "returned" early in silence, "warned" with ui.notify and returned, or
\* "raised"), the count a draw requested (-1 when no draw was made),
\* and `due`: the combatants paralysed since their last draw phase (`owed`:
\* whether the drawing combatant was one of them)
Called(op, outcome, requested, owed, due) ==
    [op |-> op, outcome |-> outcome,
     requested |-> requested, owed |-> owed, due |-> due]

\* the combatants paralysed since their last draw phase, before this call
Due == IF log = Idle THEN {} ELSE log.due

\* a handler that returns early: nothing changes but the selection ensure_selected repairs
Returned(op, sel, notified) ==
    /\ selected_id' = sel
    /\ UNCHANGED <<state, order, active_turn_id, turn_in_progress>>
    /\ log' = Called(op, IF notified THEN "warned" ELSE "returned", -1, FALSE, Due)

\* another_has_turn letting a second combatant start while the turn is taken
another_has_turn_unchecked(sel) == FALSE

\* the test of Draw and of the no-draw turn: a combatant other than the
\* selected one holds the active turn
another_has_turn(sel) == active_turn_id # None /\ active_turn_id # sel

\* get_selected: the selection after ensure_selected
get_selected == ensure_selected(selected_id, state.enemies, order)

\* Stored dropping a combatant that is not a player once its hp is 0
Stored_unless_down(e) ==
    IF ~is_player(e) /\ e.hp_current <= 0
    THEN [state EXCEPT !.enemies = remove_enemy(state.enemies, e.instance_id)]
    ELSE [state EXCEPT !.enemies = Assign(state.enemies, e.instance_id, e)]

\* the handlers mutate the object that state.enemies holds: the roster with
\* the combatant e in place of the entry of its id
Stored(e) == [state EXCEPT !.enemies = Assign(state.enemies, e.instance_id, e)]

\* adds inst to the page as ui_add_enemy, ui_add_player and ui_add_custom_enemy do
Added(op, inst) ==
    LET r == add_enemy(state.enemies, inst)
    IN  IF r.error
        THEN /\ UNCHANGED session
             /\ log' = Called(op, "raised", -1, FALSE, Due)
        ELSE /\ state' = [state EXCEPT !.enemies = r.enemies]
             /\ order' = Append(order, inst.instance_id)
             /\ selected_id' = inst.instance_id
             /\ UNCHANGED <<active_turn_id, turn_in_progress>>
             /\ log' = Called(op, "done", -1, FALSE, Due)

UiAddEnemy(mode) ==
    /\ Ready(mode)
    /\ UNCHANGED <<enemy, runs, disk>>
    /\ \E tpl \in SessionTemplates, iid \in Ids :
        \E spawned \in spawn_enemy(tpl, Decks) :
            Added("ui_add_enemy",
                  [instance_id |-> iid, template_id |-> tpl.id] @@ spawned)

UiAddPlayer(mode) ==
    /\ Ready(mode)
    /\ UNCHANGED <<enemy, runs, disk>>
    /\ \E iid \in IdsOf(mode) : Added("ui_add_player", spawn_player(iid))

UiAddCustomEnemy(mode) ==
    /\ Ready(mode)
    /\ UNCHANGED <<enemy, runs, disk>>
    /\ \E iid \in IdsOf(mode), draws \in {1}, movement \in {SessionMovement} :
        \E inst \in spawn_custom_enemy(iid, 1, 0, 0, draws, movement, "core") :
            Added("ui_add_custom_enemy", inst)

UiDeleteItem(mode) ==
    /\ Ready(mode)
    /\ UNCHANGED <<enemy, runs, disk>>
    /\ \E instance_id \in IdsOf(mode) :
        LET enemies == remove_enemy(state.enemies, instance_id)
            ord == order_remove(order, instance_id)
        IN  /\ active_turn_id' = IF active_turn_id = instance_id THEN None ELSE active_turn_id
            /\ turn_in_progress' = IF active_turn_id = instance_id THEN FALSE ELSE turn_in_progress
            /\ state' = [state EXCEPT !.enemies = enemies]
            /\ order' = ord
            /\ selected_id' = ensure_selected(
                   IF selected_id = instance_id THEN None ELSE selected_id, enemies, ord)
            /\ log' = Called("ui_delete_item", "done", -1, FALSE,
                             Due \ {instance_id})

\* a click on the card of a combatant
UiSelect(mode) ==
    /\ Ready(mode)
    /\ UNCHANGED <<enemy, runs, disk>>
    /\ \E iid \in DOMAIN state.enemies :
        /\ selected_id' = iid
        /\ UNCHANGED <<state, order, active_turn_id, turn_in_progress>>
        /\ log' = Called("on_click", "done", -1, FALSE, Due)

\* the arrows of the card of a combatant
UiMove(mode) ==
    /\ Ready(mode)
    /\ UNCHANGED <<enemy, runs, disk>>
    /\ \E iid \in DOMAIN state.enemies, direction \in {-1, 1} :
        /\ order' = move_in_order(order, iid, direction)
        /\ UNCHANGED <<state, selected_id, active_turn_id, turn_in_progress>>
        /\ log' = Called("move_in_order", "done", -1, FALSE, Due)

UiEnemyTurn(mode) ==
    /\ Ready(mode)
    /\ UNCHANGED <<enemy, runs, disk>>
    /\ LET sel == get_selected
       IN  IF sel = None THEN Returned("ui_enemy_turn", sel, FALSE)
           ELSE IF is_player(state.enemies[sel]) THEN Returned("ui_enemy_turn", sel, FALSE)
           ELSE IF another_has_turn(sel)
           THEN Returned("ui_enemy_turn", sel, TRUE)
           ELSE \E res \in enemy_turn(state.enemies[sel]) :
                LET drew == Assign(res.enemy, "last_drawn", res.ret.drawn)
                    e == apply_guard_cards(drew, drawn_effects(res.ret.drawn))
                IN  /\ active_turn_id' = sel
                    /\ turn_in_progress' = TRUE
                    /\ state' = Stored(e)
                    /\ selected_id' = sel
                    /\ UNCHANGED order
                    /\ log' = Called("ui_enemy_turn", "done", res.ret.requested,
                                     sel \in Due, Due \ {sel})

\* ui_enemy_turn_no_draw without its last two assignments: the pointer stays
UiEnemyTurnNoDraw_holding(mode) ==
    /\ Ready(mode)
    /\ UNCHANGED <<enemy, runs, disk>>
    /\ LET sel == get_selected
       IN  IF sel = None THEN Returned("ui_enemy_turn_no_draw", sel, FALSE)
           ELSE IF is_player(state.enemies[sel]) THEN Returned("ui_enemy_turn_no_draw", sel, FALSE)
           ELSE IF another_has_turn(sel)
           THEN Returned("ui_enemy_turn_no_draw", sel, TRUE)
           ELSE /\ state' = Stored(on_turn_end(on_turn_start(state.enemies[sel]).enemy).enemy)
                /\ active_turn_id' = sel
                /\ turn_in_progress' = FALSE
                /\ selected_id' = sel
                /\ UNCHANGED order
                /\ log' = Called("ui_enemy_turn_no_draw", "done", -1, FALSE, Due)

UiEnemyTurnNoDraw(mode) ==
    /\ Ready(mode)
    /\ UNCHANGED <<enemy, runs, disk>>
    /\ LET sel == get_selected
       IN  IF sel = None THEN Returned("ui_enemy_turn_no_draw", sel, FALSE)
           ELSE IF is_player(state.enemies[sel]) THEN Returned("ui_enemy_turn_no_draw", sel, FALSE)
           ELSE IF another_has_turn(sel)
           THEN Returned("ui_enemy_turn_no_draw", sel, TRUE)
           ELSE /\ state' = Stored(on_turn_end(on_turn_start(state.enemies[sel]).enemy).enemy)
                /\ active_turn_id' = None
                /\ turn_in_progress' = FALSE
                /\ selected_id' = sel
                /\ UNCHANGED order
                /\ log' = Called("ui_enemy_turn_no_draw", "done", -1, FALSE, Due)

UiEndTurn(mode) ==
    /\ Ready(mode)
    /\ UNCHANGED <<enemy, runs, disk>>
    /\ LET sel == get_selected
       IN  IF sel = None THEN Returned("ui_end_turn", sel, FALSE)
           ELSE IF is_player(state.enemies[sel]) THEN Returned("ui_end_turn", sel, FALSE)
           ELSE IF active_turn_id = None \/ active_turn_id # sel
           THEN Returned("ui_end_turn", sel, TRUE)
           ELSE IF ~turn_in_progress THEN Returned("ui_end_turn", sel, TRUE)
           ELSE /\ state' = Stored(end_turn(state.enemies[sel]))
                /\ active_turn_id' = None
                /\ turn_in_progress' = FALSE
                /\ selected_id' = sel
                /\ UNCHANGED order
                /\ log' = Called("ui_end_turn", "done", -1, FALSE, Due)

UiNext(mode) ==
    /\ Ready(mode)
    /\ UNCHANGED <<enemy, runs, disk>>
    /\ state' =
        IF active_turn_id # None /\ active_turn_id \in DOMAIN state.enemies
        THEN LET active_enemy == state.enemies[active_turn_id]
             IN  IF is_player(active_enemy) THEN state
                 ELSE IF turn_in_progress THEN Stored(end_turn(active_enemy))
                 ELSE Stored(on_turn_end(active_enemy).enemy)
        ELSE state
    /\ active_turn_id' = None
    /\ turn_in_progress' = FALSE
    /\ selected_id' = select_next_in_order(selected_id, order)
    /\ UNCHANGED order
    /\ log' = Called("ui_next", "done", -1, FALSE, Due)

\* the status checkboxes of the attack dialog, applied in the order of the handler
attack_effects(e, effects) ==
    LET burned == IF "burn" \in effects THEN add_status_stack(e, "burn", 1) ELSE e
        poisoned == IF "poison" \in effects THEN add_status_stack(burned, "poison", 1) ELSE burned
        slowed == IF "slow" \in effects THEN set_transient_status(poisoned, "slowed") ELSE poisoned
    IN  IF "paralyse" \in effects THEN set_transient_status(slowed, "paralyzed") ELSE slowed

UiApplyAttack(mode, ticked) ==
    /\ Ready(mode)
    /\ UNCHANGED <<enemy, runs, disk>>
    /\ LET sel == get_selected
       IN  IF sel = None THEN Returned("ui_apply_attack", sel, FALSE)
           ELSE IF is_player(state.enemies[sel]) THEN Returned("ui_apply_attack", sel, FALSE)
           ELSE \E damage \in SessionDamages, mods \in {{}, {"stab"}}, effects \in ticked :
                LET e == attack_effects(apply_attack(state.enemies[sel], damage, mods).enemy, effects)
                IN  /\ state' = Stored(e)
                    /\ selected_id' = sel
                    /\ UNCHANGED <<order, active_turn_id, turn_in_progress>>
                    /\ log' = Called("ui_apply_attack", "done", -1, FALSE,
                                     IF "paralyse" \in effects THEN Due \cup {sel} ELSE Due)

UiApplyHeal(mode) ==
    /\ Ready(mode)
    /\ UNCHANGED <<enemy, runs, disk>>
    /\ LET sel == get_selected
       IN  IF sel = None THEN Returned("ui_apply_heal", sel, FALSE)
           ELSE IF is_player(state.enemies[sel]) THEN Returned("ui_apply_heal", sel, FALSE)
           ELSE \E hp \in {0, MaxHeal} :
                /\ state' = Stored(apply_heal(state.enemies[sel], hp, 0, 0, 0).enemy)
                /\ selected_id' = sel
                /\ UNCHANGED <<order, active_turn_id, turn_in_progress>>
                /\ log' = Called("ui_apply_heal", "done", -1, FALSE, Due)

\* roll_loot: the rolls of the entries from position i on, added to the
\* currency and resources rolled and the texts collected so far; an amount of
\* 0 or less is skipped
RECURSIVE roll_loot_from(_, _, _, _, _)
roll_loot_from(loot, i, cur, res, other) ==
    IF i > Len(loot)
    THEN { [currency |-> cur, resources |-> res, other |-> other] }
    ELSE LET entry == loot[i]
         IN  IF entry.type = "other"
             THEN roll_loot_from(loot, i + 1, cur, res, Append(other, entry.text))
             ELSE UNION {
                 IF amount <= 0 THEN roll_loot_from(loot, i + 1, cur, res, other)
                 ELSE IF entry.type = "currency"
                 THEN roll_loot_from(loot, i + 1,
                          Assign(cur, entry.kind,
                                 (IF entry.kind \in DOMAIN cur THEN cur[entry.kind] ELSE 0)
                                 + amount),
                          res, other)
                 ELSE roll_loot_from(loot, i + 1, cur,
                          Assign(res, entry.kind,
                                 (IF entry.kind \in DOMAIN res THEN res[entry.kind] ELSE 0)
                                 + amount),
                          other)
                 : amount \in entry.min .. entry.max }

roll_loot(template) == roll_loot_from(template.loot, 1, EmptyDict, EmptyDict, <<>>)

\* roll_loot_for_instance: the combatant with the loot rolled for its template,
\* or with the note that it has none
roll_loot_for_instance(e) ==
    LET tpls == { t \in SessionTemplates : t.id = e.template_id }
    IN  IF tpls = {}
        THEN { Assign(Assign(e, "rolled_loot",
                             [currency |-> EmptyDict, resources |-> EmptyDict,
                              other |-> <<"(no template loot)">>]),
                      "loot_rolled", TRUE) }
        ELSE { Assign(Assign(e, "rolled_loot", lr), "loot_rolled", TRUE) :
                 lr \in UNION { roll_loot(t) : t \in tpls } }

UiRollLoot(mode) ==
    /\ Ready(mode)
    /\ UNCHANGED <<enemy, runs, disk>>
    /\ LET sel == get_selected
       IN  IF sel = None THEN Returned("ui_roll_loot", sel, FALSE)
           ELSE IF is_player(state.enemies[sel]) THEN Returned("ui_roll_loot", sel, FALSE)
           ELSE IF state.enemies[sel].template_id = "custom"
           THEN Returned("ui_roll_loot", sel, TRUE)
           ELSE \E e \in roll_loot_for_instance(state.enemies[sel]) :
                /\ state' = Stored(e)
                /\ selected_id' = sel
                /\ UNCHANGED <<order, active_turn_id, turn_in_progress>>
                /\ log' = Called("ui_roll_loot", "done", -1, FALSE, Due)

\* any sequence of handler calls of a page that custom enemies and players are
\* added to
NextSession ==
    \/ UiAddPlayer("observed")
    \/ UiAddCustomEnemy("observed")
    \/ UiDeleteItem("observed")
    \/ UiSelect("observed")
    \/ UiMove("observed")
    \/ UiEnemyTurn("observed")
    \/ UiEnemyTurnNoDraw("observed")
    \/ UiEndTurn("observed")
    \/ UiNext("observed")
    \/ UiApplyAttack("observed", SessionEffects)
    \/ UiApplyHeal("observed")

\* the handlers that change the roster or the order, and Next, on a page with
\* room for three combatants
NextRoster ==
    \/ UiAddEnemy("roster")
    \/ UiAddPlayer("roster")
    \/ UiAddCustomEnemy("roster")
    \/ UiDeleteItem("roster")
    \/ UiMove("roster")
    \/ UiNext("roster")

\* SpecSession: a page from its construction, under any sequence of handler calls
InitSession ==
    /\ enemy = None
    /\ log = Idle
    /\ NoSession /\ runs = <<>> /\ disk = NoFiles

SpecSession == InitSession /\ [][NextSession]_vars

\* SpecRoster: a page from its construction, under any sequence of additions,
\* deletions, moves and Next
SpecRoster == InitSession /\ [][NextRoster]_vars

\* the checkboxes ticked in a single call on a page
PageEffects == {{}, {"paralyse"}, {"slow"}, {"burn", "poison"}}

\* an enemy of a page in the middle of a battle: hurt or down, with guard off
\* its base, burning, paralyzed or slowed, with or without cards in hand, the
\* attack card c1 or the guard card s1 on top of its draw pile
PageEnemies(iid) ==
    { [instance_id |-> iid, template_id |-> "goblin"] @@
      [Combatant(hp, 1, 0, 0, 0, 0, 1, guard, 1,
                 StatusEntry("burn", burn) @@ StatusEntry("paralyzed", paralyzed)
                     @@ StatusEntry("slowed", slowed),
                 [draw_pile |-> <<top>> \o (IF in_hand THEN <<"s3">> ELSE <<"s2", "s3">>),
                  discard_pile |-> IF top = "c1" THEN <<"s1">> ELSE <<"c1">>,
                  hand |-> IF in_hand THEN <<"s2">> ELSE <<>>])
          EXCEPT !.movement = movement] :
        hp \in 0 .. 1, guard \in {0, MaxGuard},
        burn \in {{}, {1}}, paralyzed \in {{}, {1}}, slowed \in {{}, {1}},
        in_hand \in BOOLEAN, top \in {"c1", "s1"},
        movement \in {0, 1, SessionMovement} }

\* the second combatant of a page: a player, or a fresh or a mid-turn enemy
PageOthers(iid) ==
    {spawn_player(iid)} \cup
    { e \in PageEnemies(iid) :
        /\ e.hp_current = 1 /\ e.guard_current = 0 /\ e.movement = SessionMovement
        /\ DOMAIN e.statuses = {} }

\* the rosters of the pages: empty, one combatant, or two
PageRosters ==
    {EmptyDict}
    \cup { Assign(EmptyDict, "a", e) : e \in PageEnemies("a") \cup {spawn_player("a")} }
    \cup { Assign(Assign(EmptyDict, "a", e), "b", o) :
            e \in PageEnemies("a") \cup {spawn_player("a")}, o \in PageOthers("b") }

\* the pointers a page can hold: the active combatant is an enemy of the
\* roster and has drawn, the selection is in the roster
PagePointers(enemies) ==
    { p \in [selected_id : (DOMAIN enemies) \cup {None},
             active_turn_id : (DOMAIN enemies) \cup {None},
             turn_in_progress : BOOLEAN] :
        /\ (p.selected_id = None) = (DOMAIN enemies = {})
        /\ p.active_turn_id # None => ~is_player(enemies[p.active_turn_id])
        /\ p.turn_in_progress = (p.active_turn_id # None) }

\* a single handler call on a page
NextPage ==
    \/ UiAddEnemy("single")
    \/ UiAddPlayer("single")
    \/ UiAddCustomEnemy("single")
    \/ UiDeleteItem("single")
    \/ UiSelect("single")
    \/ UiMove("single")
    \/ UiEnemyTurn("single")
    \/ UiEnemyTurnNoDraw("single")
    \/ UiEndTurn("single")
    \/ UiNext("single")
    \/ UiApplyAttack("single", PageEffects)
    \/ UiApplyHeal("single")
    \/ UiRollLoot("single")

\* SpecPage: one handler call on a page in the middle of a battle
InitPage ==
    /\ enemy = None
    /\ log = Idle
    /\ runs = <<>> /\ disk = NoFiles
    /\ \E enemies \in PageRosters :
        /\ state = [enemies |-> enemies]
        /\ order \in { o \in Shuffles(<<"a", "b">>) \cup {<<"a">>, <<>>} :
                        Range(o) = DOMAIN enemies }
        /\ \E p \in PagePointers(enemies) :
            /\ selected_id = p.selected_id
            /\ active_turn_id = p.active_turn_id
            /\ turn_in_progress = p.turn_in_progress

SpecPage == InitPage /\ [][NextPage]_vars

----------------------------------------------------------------------------
(* Vitals and guard over call sequences *)

\* C1: from a combatant whose hp, armor and magic armor are within 0..max, every
\* sequence of apply_attack, apply_heal, on_turn_start, enemy_turn, end_turn and
\* on_turn_end calls, accepted or rejected, keeps the three within 0..max.
C1_VitalsWithinBounds ==
    /\ 0 <= enemy.hp_current /\ enemy.hp_current <= enemy.hp_max
    /\ 0 <= enemy.armor_current /\ enemy.armor_current <= enemy.armor_max
    /\ 0 <= enemy.magic_armor_current
    /\ enemy.magic_armor_current <= enemy.magic_armor_max

\* a combatant that drew and discarded its card, was then paralysed by an attack,
\* healed above its base guard, restored to full armor and magic armor, and killed
C1_Witness ==
    /\ enemy.deck_state.discard_pile # <<>>
    /\ "paralyzed" \in DOMAIN enemy.statuses
    /\ enemy.guard_current > enemy.guard_base
    /\ enemy.guard_current = MaxGuard
    /\ enemy.hp_current = 0 /\ enemy.hp_max = AnyMaxHp
    /\ enemy.armor_current = enemy.armor_max /\ enemy.armor_max = 1
    /\ enemy.magic_armor_current = enemy.magic_armor_max

----------------------------------------------------------------------------
(* The draw engine *)

\* the number of times x occurs in a sequence
Count(seq, x) == Cardinality({ i \in DOMAIN seq : seq[i] = x })

\* the card ids of the three zones of a deck state, as one sequence
ZoneCards(ds) == ds.draw_pile \o ds.discard_pile \o ds.hand

\* the two sequences hold the same multiset of card ids
SameCards(a, b) ==
    /\ Len(a) = Len(b)
    /\ \A i \in DOMAIN a : Count(a, a[i]) = Count(b, a[i])

\* the pool the combatants of SpecDeck are spawned with
SpawnPool == build_deck_card_ids(Decks.twin, Specials)

\* log holds an accepted call that went through the loop of draw_cards
DrawObserved ==
    /\ log.op \in {"draw_cards", "enemy_turn"}
    /\ ~log.error

\* C3: the multiset of card ids over draw pile, discard pile and hand (hence
\* the sum of their lengths) is after every sequence of draw_cards, enemy_turn
\* and end_turn calls, reshuffles included, what it was at spawn.
C3_CardsConserved ==
    /\ SameCards(ZoneCards(enemy.deck_state), SpawnPool)
    /\ Len(enemy.deck_state.draw_pile) + Len(enemy.deck_state.discard_pile)
           + Len(enemy.deck_state.hand) = Len(SpawnPool)

\* a draw that reshuffled the discards of an earlier turn while cards were in hand
C3_Witness ==
    /\ log.op = "draw_cards" /\ ~log.error
    /\ log.ret.reshuffled
    /\ log.before.deck_state.hand # <<>>
    /\ Len(log.before.deck_state.discard_pile) >= 2
    /\ Len(log.ret.drawn) >= 2

\* C4: every pull of a draw_cards call takes the first card of the draw pile
\* and appends it to the hand in one step, so that the zones hold every card
\* exactly once at every point of the call; the drawn list is the cards the
\* call appended to the hand, in order; without a reshuffle it is the first k
\* cards of the draw pile as it was, and the draw pile left is the rest.
C4_PullFrontToHand ==
    DrawObserved =>
        LET before == log.before.deck_state
            after == enemy.deck_state
            drawn == log.ret.drawn
            k == Len(drawn)
            pulls == SelectSeq(log.steps, LAMBDA st : st.kind = "pull")
        IN  /\ \A i \in DOMAIN log.steps :
                LET st == log.steps[i]
                IN  /\ st.before = IF i = 1 THEN before ELSE log.steps[i - 1].after
                    /\ SameCards(ZoneCards(st.after), ZoneCards(before))
                    /\ st.kind = "pull" =>
                        /\ st.before.draw_pile # <<>>
                        /\ st.after.draw_pile = Tail(st.before.draw_pile)
                        /\ st.after.hand =
                               Append(st.before.hand, Head(st.before.draw_pile))
                        /\ st.after.discard_pile = st.before.discard_pile
            /\ after = IF log.steps = <<>> THEN before
                       ELSE log.steps[Len(log.steps)].after
            /\ Len(pulls) = k
            /\ \A i \in 1 .. k : drawn[i] = Head(pulls[i].before.draw_pile)
            /\ after.hand = before.hand \o drawn
            /\ ~log.ret.reshuffled =>
                /\ k <= Len(before.draw_pile)
                /\ drawn = SubSeq(before.draw_pile, 1, k)
                /\ after.draw_pile = SubSeq(before.draw_pile, k + 1, Len(before.draw_pile))
                /\ after.discard_pile = before.discard_pile

\* a draw of two cards from a pile of three, with no reshuffle
C4_Witness ==
    /\ log.op = "draw_cards" /\ ~log.error
    /\ ~log.ret.reshuffled
    /\ Len(log.before.deck_state.draw_pile) = 3
    /\ Len(log.ret.drawn) = 2
    /\ Len(enemy.deck_state.draw_pile) = 1


\* C5: draw_cards(enemy, n) with n >= 0 returns min(n, len(draw_pile) +
\* len(discard_pile)) cards, the sizes taken when the call starts; with fewer
\* than n available it returns normally with what there was; the cards that
\* were in hand stay in hand, at their places, and are not among the drawn.
C5_DrawCount ==
    (log.op = "enemy_turn" \/ (log.op = "draw_cards" /\ log.args.n >= 0)) =>
        LET before == log.before.deck_state
            after == enemy.deck_state
        IN  /\ ~log.error
            /\ log.op = "draw_cards" => log.ret.requested = log.args.n
            /\ log.ret.requested >= 0
            /\ Len(log.ret.drawn) =
                   Min(log.ret.requested,
                       Len(before.draw_pile) + Len(before.discard_pile))
            /\ SubSeq(after.hand, 1, Len(before.hand)) = before.hand
            /\ Len(after.hand) = Len(before.hand) + Len(log.ret.drawn)
            /\ Range(log.ret.drawn) \cap Range(before.hand) = {}
            /\ Range(after.draw_pile) \cap Range(before.hand) = {}
            /\ Range(after.discard_pile) \cap Range(before.hand) = {}
            /\ log.ret.hand_after = Len(after.hand)
            /\ log.ret.draw_pile_after = Len(after.draw_pile)
            /\ log.ret.discard_pile_after = Len(after.discard_pile)

\* a draw of three cards that found two, one in the draw pile and one among the
\* discards, the third card being in hand
C5_Witness ==
    /\ log.op = "draw_cards" /\ ~log.error
    /\ log.args.n = 3
    /\ Len(log.before.deck_state.draw_pile) = 1
    /\ Len(log.before.deck_state.discard_pile) = 1
    /\ Len(log.before.deck_state.hand) = 1
    /\ Len(log.ret.drawn) = 2
    /\ enemy.deck_state.draw_pile = <<>> /\ enemy.deck_state.discard_pile = <<>>

\* the reshuffles among the deck mutations of the observed call
ReshuffleSteps == SelectSeq(log.steps, LAMBDA st : st.kind = "reshuffle")

\* C6: a draw_cards call reshuffles at most once, and only when the draw pile
\* is empty and the discard pile is not; right after the reshuffle the discard
\* pile is empty and the draw pile is a rearrangement of the former discard
\* pile; the reshuffled flag of the result is true exactly when the call
\* reshuffled, which is when it asked for more cards than the draw pile held
\* and there were discards.
C6_ReshuffleOnce ==
    DrawObserved =>
        LET before == log.before.deck_state
        IN  /\ Len(ReshuffleSteps) <= 1
            /\ \A i \in DOMAIN ReshuffleSteps :
                LET st == ReshuffleSteps[i]
                IN  /\ st.before.draw_pile = <<>>
                    /\ st.before.discard_pile # <<>>
                    /\ st.after.discard_pile = <<>>
                    /\ SameCards(st.after.draw_pile, st.before.discard_pile)
                    /\ st.after.hand = st.before.hand
            /\ log.ret.reshuffled <=> ReshuffleSteps # <<>>
            /\ log.ret.reshuffled <=>
                   /\ log.ret.requested > Len(before.draw_pile)
                   /\ before.discard_pile # <<>>
            /\ log.ret.reshuffled =>
                   /\ enemy.deck_state.discard_pile = <<>>
                   /\ SameCards(SubSeq(log.ret.drawn, Len(before.draw_pile) + 1,
                                       Len(log.ret.drawn)) \o enemy.deck_state.draw_pile,
                                before.discard_pile)
            /\ ~log.ret.reshuffled =>
                   enemy.deck_state.discard_pile = before.discard_pile

\* a draw that emptied the draw pile, reshuffled two discards and drew one of them
C6_Witness ==
    /\ log.op = "draw_cards" /\ ~log.error
    /\ log.ret.reshuffled
    /\ Len(ReshuffleSteps) = 1
    /\ Len(log.before.deck_state.draw_pile) = 1
    /\ Len(log.before.deck_state.discard_pile) = 2
    /\ Len(log.ret.drawn) = 2
    /\ Len(enemy.deck_state.draw_pile) = 1

----------------------------------------------------------------------------
(* Rejected calls *)

\* the observed call has an argument the operation rejects
InvalidArguments ==
    \/ log.op = "apply_attack" /\ log.args.damage < 0
    \/ /\ log.op = "apply_heal"
       /\ \/ log.args.hp < 0 \/ log.args.armor < 0
          \/ log.args.magic_armor < 0 \/ log.args.guard < 0
    \/ log.op = "draw_cards" /\ log.args.n < 0

\* C7: apply_attack with damage < 0, apply_heal with any amount < 0 (whatever
\* the other amounts) and draw_cards with n < 0 fail with the invalid-argument
\* error and leave every field of the combatant as it was.
C7_RejectedCallChangesNothing ==
    InvalidArguments =>
        /\ log.error
        /\ log.ret = "ValueError"
        /\ enemy = log.before

\* a rejected heal of a wounded combatant with broken armor: the hp and armor
\* amounts are positive, the guard amount is negative
C7_Witness ==
    /\ log.op = "apply_heal" /\ log.error
    /\ log.args.hp > 0 /\ log.args.armor > 0 /\ log.args.guard < 0
    /\ log.before.hp_current < log.before.hp_max
    /\ log.before.armor_current < log.before.armor_max
    /\ enemy.hp_current = log.before.hp_current

----------------------------------------------------------------------------
(* Attack resolution *)

\* log holds an accepted attack
AttackObserved == log.op = "apply_attack" /\ log.args.damage >= 0

\* the armor that counts for the attack: the armor before it, less the point a
\* sunder destroys
SunderedArmor(b, mods) ==
    IF "sunder" \in mods /\ b.armor_current > 0
    THEN b.armor_current - 1 ELSE b.armor_current

\* the guard the attack meets: none under pierce, one point less under stab
EffectiveGuard(b, mods) ==
    IF "pierce" \in mods THEN 0
    ELSE IF "stab" \in mods /\ b.guard_current > 0 THEN b.guard_current - 1
    ELSE b.guard_current

\* the armor the attack meets: none under pierce; under stab one point less
\* when there is no guard to take the stab
EffectiveArmor(b, mods) ==
    IF "pierce" \in mods THEN 0
    ELSE IF "stab" \in mods /\ b.guard_current = 0
         THEN Max(0, SunderedArmor(b, mods) - 1)
    ELSE SunderedArmor(b, mods)

\* the magic armor the attack meets: none under magic_pierce
EffectiveMagicArmor(b, mods) ==
    IF "magic_pierce" \in mods THEN 0 ELSE b.magic_armor_current

\* C8: for damage >= 0 and any modifiers, with the effective guard, armor and
\* magic armor being the values after sunder and after the ignores,
\* damage_after_fixed = max(0, damage - (armor + magic armor)), guard_used =
\* min(guard, damage_after_fixed), damage_to_hp = damage_after_fixed -
\* guard_used, hp becomes max(0, hp - damage_to_hp) and guard becomes guard -
\* guard_used; guarded_total is the damage that did not reach hp.
C8_AttackFormula ==
    AttackObserved =>
        LET b == log.before
            mods == log.args.mods
            after_fixed == Max(0, log.args.damage
                                  - (EffectiveArmor(b, mods) + EffectiveMagicArmor(b, mods)))
            used == Min(EffectiveGuard(b, mods), after_fixed)
            to_hp == after_fixed - used
        IN  /\ ~log.error
            /\ log.ret.damage_to_hp = to_hp
            /\ log.ret.guarded_total = log.args.damage - to_hp
            /\ enemy.hp_current = Max(0, b.hp_current - to_hp)
            /\ enemy.guard_current = b.guard_current - used
            /\ log.ret.hp_after = enemy.hp_current
            /\ log.ret.guard_after = enemy.guard_current

\* damage 10 without modifiers against guard 3, armor 2, magic armor 0
C8_Witness ==
    /\ log.op = "apply_attack" /\ ~log.error
    /\ log.args.damage = 10 /\ log.args.mods = {}
    /\ log.before.guard_current = 3 /\ log.before.armor_current = 2
    /\ log.before.magic_armor_current = 0
    /\ log.ret.guarded_total = 5 /\ log.ret.damage_to_hp = 5
    /\ enemy.guard_current = 0

\* C9: an attack with sunder lowers armor by exactly 1 when there is armor, and
\* the destroyed point does not mitigate that attack: the attack resolves as
\* the same attack without sunder would against the lowered armor; with armor
\* 0 it leaves the armor at 0 and succeeds; sunder does not touch the guard
\* (the guard changes only by what the attack consumes of it).
C9_Sunder ==
    (AttackObserved /\ "sunder" \in log.args.mods) =>
        LET b == log.before
            mods == log.args.mods
            sundered == [b EXCEPT !.armor_current = SunderedArmor(b, mods)]
            plain == apply_attack(sundered, log.args.damage, mods \ {"sunder"})
            after_fixed == Max(0, log.args.damage
                                  - (EffectiveArmor(b, mods) + EffectiveMagicArmor(b, mods)))
        IN  /\ ~log.error
            /\ b.armor_current > 0 => enemy.armor_current = b.armor_current - 1
            /\ b.armor_current = 0 => enemy.armor_current = 0
            /\ log.ret.armor_before = b.armor_current
            /\ log.ret.armor_after = enemy.armor_current
            /\ enemy = plain.enemy
            /\ log.ret.damage_to_hp = plain.ret.damage_to_hp
            /\ mods = {"sunder"} =>
                   log.ret.damage_to_hp =
                       Max(0, Max(0, log.args.damage
                                     - (enemy.armor_current + b.magic_armor_current))
                              - b.guard_current)
            /\ enemy.guard_current =
                   b.guard_current - Min(EffectiveGuard(b, mods), after_fixed)
            /\ log.args.damage = 0 => enemy.guard_current = b.guard_current

\* damage 1 with sunder against armor 2, guard 0: armor 1 is left and mitigates
\* the attack
C9_Witness ==
    /\ log.op = "apply_attack" /\ ~log.error
    /\ log.args.damage = 1 /\ log.args.mods = {"sunder"}
    /\ log.before.armor_current = 2 /\ log.before.guard_current = 0
    /\ log.before.magic_armor_current = 0
    /\ enemy.armor_current = 1
    /\ log.ret.damage_to_hp = 0 /\ log.ret.guarded_total = 1
    /\ enemy.hp_current = log.before.hp_current

\* C10: an attack with pierce and without sunder ignores all guard and armor:
\* damage_to_hp = max(0, damage - effective magic armor), and guard and armor
\* are after the attack what they were before it, so that a following attack
\* without modifiers is mitigated by the whole guard and armor.
C10_Pierce ==
    (AttackObserved /\ "pierce" \in log.args.mods /\ "sunder" \notin log.args.mods) =>
        LET b == log.before
        IN  /\ ~log.error
            /\ log.ret.damage_to_hp =
                   Max(0, log.args.damage - EffectiveMagicArmor(b, log.args.mods))
            /\ enemy.guard_current = b.guard_current
            /\ enemy.armor_current = b.armor_current
            /\ log.ret.guard_after = b.guard_current
            /\ log.ret.armor_after = b.armor_current
            /\ log.ret.ignored_regular = b.guard_current + b.armor_current
            /\ \A damage \in 0 .. MaxDamage :
                   apply_attack(enemy, damage, {}).ret.guarded_total =
                       Min(damage, b.guard_current + b.armor_current
                                   + b.magic_armor_current)

\* damage 10 with pierce against guard 3, armor 2, no magic armor
C10_Witness ==
    /\ log.op = "apply_attack" /\ ~log.error
    /\ log.args.damage = 10 /\ log.args.mods = {"pierce"}
    /\ log.before.guard_current = 3 /\ log.before.armor_current = 2
    /\ log.before.magic_armor_current = 0
    /\ log.ret.damage_to_hp = 10
    /\ enemy.guard_current = 3 /\ enemy.armor_current = 2

\* C11: an attack with stab and without pierce ignores exactly 1 point of
\* regular reduction, of the guard when there is guard and else of the armor;
\* the point is bypassed, not consumed: the armor keeps it, and the guard
\* loses only what absorbs damage, which leaves the ignored guard point; with
\* pierce as well the attack resolves as with pierce alone.
C11_Stab ==
    (AttackObserved /\ "stab" \in log.args.mods) =>
        LET b == log.before
            mods == log.args.mods
            armor_now == SunderedArmor(b, mods)
            guard_met == IF b.guard_current > 0 THEN b.guard_current - 1 ELSE 0
            armor_met == IF b.guard_current > 0 \/ armor_now = 0
                         THEN armor_now ELSE armor_now - 1
            after_fixed == Max(0, log.args.damage
                                  - (armor_met + EffectiveMagicArmor(b, mods)))
            absorbed == Min(guard_met, after_fixed)
            unstabbed == apply_attack(b, log.args.damage, mods \ {"stab"})
        IN  /\ ~log.error
            /\ "pierce" \notin mods =>
                /\ log.ret.ignored_regular = 1
                /\ log.ret.damage_to_hp = after_fixed - absorbed
                /\ enemy.hp_current = Max(0, b.hp_current - (after_fixed - absorbed))
                /\ enemy.guard_current = b.guard_current - absorbed
                /\ b.guard_current > 0 => enemy.guard_current >= 1
                /\ enemy.armor_current = armor_now
            /\ "pierce" \in mods =>
                /\ enemy = unstabbed.enemy
                /\ log.ret = unstabbed.ret
                /\ log.ret.ignored_regular = b.guard_current + armor_now

\* damage 5 with stab against guard 3, armor 2, no magic armor: guard 2 and
\* armor 2 are met, 1 damage reaches hp and the stabbed guard point is left
C11_Witness ==
    /\ log.op = "apply_attack" /\ ~log.error
    /\ log.args.damage = 5 /\ log.args.mods = {"stab"}
    /\ log.before.guard_current = 3 /\ log.before.armor_current = 2
    /\ log.before.magic_armor_current = 0
    /\ log.ret.damage_to_hp = 1 /\ log.ret.guarded_total = 4
    /\ enemy.guard_current = 1 /\ enemy.armor_current = 2

\* C12: an accepted attack leaves magic_armor_current as it was, with or
\* without magic_pierce, changes armor_current by the sunder decrement only,
\* raises neither hp_current nor guard_current, and leaves the three maxima,
\* guard_base, the card zones and every status but paralyzed as they were.
C12_AttackFrame ==
    AttackObserved =>
        LET b == log.before
        IN  /\ ~log.error
            /\ enemy.magic_armor_current = b.magic_armor_current
            /\ enemy.armor_current =
                   IF "sunder" \in log.args.mods /\ b.armor_current > 0
                   THEN b.armor_current - 1 ELSE b.armor_current
            /\ enemy.hp_current <= b.hp_current
            /\ enemy.guard_current <= b.guard_current
            /\ enemy.hp_max = b.hp_max /\ enemy.armor_max = b.armor_max
            /\ enemy.magic_armor_max = b.magic_armor_max
            /\ enemy.guard_base = b.guard_base
            /\ enemy.deck_state = b.deck_state
            /\ (DOMAIN enemy.statuses) \ {"paralyzed"} = (DOMAIN b.statuses) \ {"paralyzed"}
            /\ \A k \in (DOMAIN b.statuses) \ {"paralyzed"} :
                   enemy.statuses[k] = b.statuses[k]
            /\ enemy = [b EXCEPT !.hp_current = enemy.hp_current,
                                 !.guard_current = enemy.guard_current,
                                 !.armor_current = enemy.armor_current,
                                 !.statuses = enemy.statuses]

\* a paralysing attack with sunder and magic_pierce on a burning, poisoned and
\* slowed combatant with cards in hand and magic armor: it wounds, consumes
\* guard and destroys a point of armor
C12_Witness ==
    /\ log.op = "apply_attack" /\ ~log.error
    /\ {"sunder", "magic_pierce", "paralyse"} \subseteq log.args.mods
    /\ {"burn", "poison", "slowed"} \subseteq DOMAIN log.before.statuses
    /\ "paralyzed" \notin DOMAIN log.before.statuses
    /\ log.before.deck_state.hand # <<>>
    /\ log.before.magic_armor_current = 1 /\ enemy.magic_armor_current = 1
    /\ enemy.armor_current < log.before.armor_current
    /\ enemy.hp_current < log.before.hp_current
    /\ enemy.guard_current < log.before.guard_current

\* C13: an attack with paralyse leaves the paralyzed status at exactly 1 stack
\* whatever its stack count was, and reports paralyzed in applied_statuses; an
\* attack without paralyse leaves the paralyzed status as it was, present or
\* absent, and reports no status.
C13_Paralyse ==
    AttackObserved =>
        LET b == log.before
        IN  /\ ~log.error
            /\ "paralyse" \in log.args.mods =>
                /\ "paralyzed" \in DOMAIN enemy.statuses
                /\ enemy.statuses["paralyzed"] = 1
                /\ log.ret.applied_statuses = <<"paralyzed">>
            /\ "paralyse" \notin log.args.mods =>
                /\ "paralyzed" \in DOMAIN enemy.statuses
                       <=> "paralyzed" \in DOMAIN b.statuses
                /\ "paralyzed" \in DOMAIN b.statuses =>
                       enemy.statuses["paralyzed"] = b.statuses["paralyzed"]
                /\ log.ret.applied_statuses = <<>>

\* a paralysing attack on a combatant that had 2 stacks of paralyzed
C13_Witness ==
    /\ log.op = "apply_attack" /\ ~log.error
    /\ "paralyse" \in log.args.mods
    /\ "paralyzed" \in DOMAIN log.before.statuses
    /\ log.before.statuses["paralyzed"] = 2
    /\ enemy.statuses["paralyzed"] = 1

\* C14: an attack of damage 0 is accepted, brings no damage to hp, leaves
\* hp_current and guard_current as they were, and still destroys a point of
\* armor under sunder and sets the paralyzed status under paralyse.
C14_ZeroDamage ==
    (log.op = "apply_attack" /\ log.args.damage = 0) =>
        LET b == log.before
        IN  /\ ~log.error
            /\ log.ret.damage_to_hp = 0
            /\ log.ret.input_damage = 0
            /\ enemy.hp_current = b.hp_current
            /\ enemy.guard_current = b.guard_current
            /\ ("sunder" \in log.args.mods /\ b.armor_current > 0) =>
                   enemy.armor_current = b.armor_current - 1
            /\ "paralyse" \in log.args.mods =>
                /\ "paralyzed" \in DOMAIN enemy.statuses
                /\ enemy.statuses["paralyzed"] = 1

\* an attack of damage 0 with sunder and paralyse on a guarded, armored combatant
C14_Witness ==
    /\ log.op = "apply_attack" /\ ~log.error
    /\ log.args.damage = 0
    /\ log.args.mods = {"sunder", "paralyse"}
    /\ log.before.guard_current = 3 /\ enemy.guard_current = 3
    /\ log.before.armor_current = 2 /\ enemy.armor_current = 1
    /\ log.before.hp_current = 2 /\ enemy.hp_current = 2
    /\ "paralyzed" \notin DOMAIN log.before.statuses
    /\ "paralyzed" \in DOMAIN enemy.statuses

----------------------------------------------------------------------------
(* Healing *)

\* log holds a heal whose amounts are all non-negative
HealObserved ==
    /\ log.op = "apply_heal"
    /\ log.args.hp >= 0 /\ log.args.armor >= 0
    /\ log.args.magic_armor >= 0 /\ log.args.guard >= 0

\* C15: apply_heal with non-negative amounts sets hp, armor and magic armor to
\* min(max, before + amount) and guard to min(9999, before + amount), so that
\* guard can pass guard_base and stops only at the ceiling; statuses, card
\* zones and every other field stay as they were.
C15_Heal ==
    HealObserved =>
        LET b == log.before
        IN  /\ ~log.error
            /\ enemy.hp_current =
                   IF b.hp_current + log.args.hp <= b.hp_max
                   THEN b.hp_current + log.args.hp ELSE b.hp_max
            /\ enemy.armor_current =
                   IF b.armor_current + log.args.armor <= b.armor_max
                   THEN b.armor_current + log.args.armor ELSE b.armor_max
            /\ enemy.magic_armor_current =
                   IF b.magic_armor_current + log.args.magic_armor <= b.magic_armor_max
                   THEN b.magic_armor_current + log.args.magic_armor
                   ELSE b.magic_armor_max
            /\ enemy.guard_current =
                   IF b.guard_current + log.args.guard <= 9999
                   THEN b.guard_current + log.args.guard ELSE 9999
            /\ enemy.statuses = b.statuses
            /\ enemy.deck_state = b.deck_state
            /\ enemy = [b EXCEPT !.hp_current = enemy.hp_current,
                                 !.armor_current = enemy.armor_current,
                                 !.magic_armor_current = enemy.magic_armor_current,
                                 !.guard_current = enemy.guard_current]
            /\ log.ret.hp_before = b.hp_current /\ log.ret.hp_after = enemy.hp_current
            /\ log.ret.guard_before = b.guard_current
            /\ log.ret.guard_after = enemy.guard_current

\* a heal of every vital and of the guard on a combatant at full hp, with
\* broken armor and with its guard at the ceiling, far above its base guard:
\* hp and guard stay, the armor is restored
C15_Witness ==
    /\ log.op = "apply_heal" /\ ~log.error
    /\ log.args.hp > 0 /\ log.args.armor > 0 /\ log.args.guard > 0
    /\ log.before.hp_current = log.before.hp_max
    /\ enemy.hp_current = enemy.hp_max
    /\ log.before.armor_current = 0 /\ enemy.armor_current = 1
    /\ log.before.guard_current = GuardCeiling
    /\ enemy.guard_current = GuardCeiling
    /\ enemy.guard_current > enemy.guard_base
    /\ log.before.statuses # NoStatuses /\ log.before.deck_state.hand # <<>>

----------------------------------------------------------------------------
(* The turn hooks *)

\* the stacks of a status that count as damage over time: none when the status
\* is absent or its count is negative
DotStacks(statuses, k) ==
    IF k \in DOMAIN statuses /\ statuses[k] > 0 THEN statuses[k] ELSE 0

\* C16: on_turn_start (alone or as the first step of enemy_turn) sets
\* guard_current to guard_base whatever the guard was, and hp_current to
\* max(0, hp - DOT) with DOT = max(0, burn stacks) + max(0, poison stacks), an
\* absent status counting 0; armor, magic armor and guard take nothing off
\* the DOT; armor_current, magic_armor_current and the statuses with their
\* stack counts stay, and on_turn_start leaves the card zones as they were.
C16_TurnStart ==
    log.op \in {"on_turn_start", "enemy_turn"} =>
        LET b == log.before
            dot == DotStacks(b.statuses, "burn") + DotStacks(b.statuses, "poison")
        IN  /\ ~log.error
            /\ enemy.guard_current = b.guard_base
            /\ enemy.hp_current = IF b.hp_current - dot >= 0
                                  THEN b.hp_current - dot ELSE 0
            /\ enemy.armor_current = b.armor_current
            /\ enemy.magic_armor_current = b.magic_armor_current
            /\ enemy.statuses = b.statuses
            /\ log.op = "on_turn_start" =>
                /\ enemy.deck_state = b.deck_state
                /\ enemy = [b EXCEPT !.guard_current = b.guard_base,
                                     !.hp_current = enemy.hp_current]
                /\ log.ret.dot_damage = dot
                /\ log.ret.guard_before = b.guard_current
                /\ log.ret.guard_after = b.guard_base
                /\ log.ret.hp_before = b.hp_current
                /\ log.ret.hp_after = enemy.hp_current

\* a turn start of an armored combatant with magic armor and guard above its
\* base, burning with 2 stacks and poisoned with 1: the guard falls to the
\* base and the whole DOT of 3 goes to hp
C16_Witness ==
    /\ log.op = "on_turn_start"
    /\ log.ret.dot_damage = 3
    /\ log.before.hp_current = 2 /\ enemy.hp_current = 0
    /\ log.before.armor_current = 1 /\ log.before.magic_armor_current = 1
    /\ log.before.guard_current = 2 /\ enemy.guard_current = 1
    /\ enemy.guard_base = 1
    /\ enemy.statuses["burn"] = 2 /\ enemy.statuses["poison"] = 1

----------------------------------------------------------------------------
(* enemy_turn *)

\* C17: when hp_current <= 0 after the turn-start step of enemy_turn, the
\* combatant having been down already or brought down by the DOT of this turn
\* start, enemy_turn draws nothing, reports requested = 0 and reshuffled =
\* false, and leaves draw pile, discard pile and hand exactly as they were.
C17_DeadDrawsNothing ==
    (log.op = "enemy_turn" /\ enemy.hp_current <= 0) =>
        /\ ~log.error
        /\ log.ret.requested = 0
        /\ log.ret.drawn = <<>>
        /\ log.ret.reshuffled = FALSE
        /\ log.steps = <<>>
        /\ enemy.deck_state = log.before.deck_state
        /\ log.ret.draw_pile_after = Len(log.before.deck_state.draw_pile)
        /\ log.ret.discard_pile_after = Len(log.before.deck_state.discard_pile)
        /\ log.ret.hand_after = Len(log.before.deck_state.hand)

\* an enemy_turn of a combatant with 1 hp and a burn stack, an empty draw pile,
\* discards and a card in hand: the burn of this turn start kills it, and
\* nothing is reshuffled or drawn
C17_Witness ==
    /\ log.op = "enemy_turn"
    /\ log.before.hp_current = 1 /\ enemy.hp_current = 0
    /\ "burn" \in DOMAIN log.before.statuses
    /\ log.before.draws_base = 2
    /\ log.before.deck_state.draw_pile = <<>>
    /\ Len(log.before.deck_state.discard_pile) = 2
    /\ Len(log.before.deck_state.hand) = 1
    /\ enemy.deck_state = log.before.deck_state
    /\ log.ret.requested = 0

\* C18: when hp_current > 0 after the turn start, enemy_turn asks the draw
\* engine for max(0, draws_base - 1) cards if the paralyzed status is present
\* and for draws_base cards if not; the count is never negative, so the draw
\* is never rejected.
C18_DrawCount ==
    (log.op = "enemy_turn" /\ enemy.hp_current > 0) =>
        LET b == log.before
            paralyzed == "paralyzed" \in DOMAIN b.statuses
        IN  /\ ~log.error
            /\ log.ret.requested >= 0
            /\ paralyzed =>
                   log.ret.requested = IF b.draws_base >= 1 THEN b.draws_base - 1 ELSE 0
            /\ ~paralyzed => log.ret.requested = b.draws_base
            /\ Len(log.ret.drawn) =
                   Min(log.ret.requested,
                       Len(b.deck_state.draw_pile) + Len(b.deck_state.discard_pile))

\* an enemy_turn of a living, paralyzed combatant with draws_base 0: it asks
\* for no card, and the call succeeds
C18_Witness ==
    /\ log.op = "enemy_turn" /\ ~log.error
    /\ enemy.hp_current > 0
    /\ "paralyzed" \in DOMAIN log.before.statuses
    /\ log.before.draws_base = 0
    /\ log.before.deck_state.draw_pile # <<>>
    /\ log.ret.requested = 0 /\ log.ret.drawn = <<>>

----------------------------------------------------------------------------
(* The end of a turn *)

\* C19 as stated: after on_turn_end the hand is empty and every card that was
\* in hand is in the discard pile.
C19_OnTurnEndEmptiesHand ==
    log.op = "on_turn_end" =>
        /\ enemy.deck_state.hand = <<>>
        /\ Range(log.before.deck_state.hand) \subseteq Range(enemy.deck_state.discard_pile)

\* C19, amended: after end_turn the hand is empty and every card that was in
\* hand is in the discard pile, after the cards the pile held, in hand order,
\* the draw pile being untouched; on_turn_end itself leaves the three card
\* zones as they were.
C19_EndTurnEmptiesHand ==
    /\ log.op = "end_turn" =>
        /\ enemy.deck_state.hand = <<>>
        /\ enemy.deck_state.discard_pile =
               log.before.deck_state.discard_pile \o log.before.deck_state.hand
        /\ enemy.deck_state.draw_pile = log.before.deck_state.draw_pile
        /\ Range(log.before.deck_state.hand) \subseteq Range(enemy.deck_state.discard_pile)
    /\ log.op = "on_turn_end" =>
        enemy.deck_state = log.before.deck_state

\* an end_turn that moved a hand of two cards behind two earlier discards
C19_Witness ==
    /\ log.op = "end_turn"
    /\ Len(log.before.deck_state.hand) = 2
    /\ Len(log.before.deck_state.discard_pile) = 2
    /\ enemy.deck_state.hand = <<>>
    /\ Len(enemy.deck_state.discard_pile) = 4

\* the entry of a status in a dictionary: {} when absent, else {stacks}
StatusOpt(statuses, k) == IF k \in DOMAIN statuses THEN {statuses[k]} ELSE {}

\* C20: on_turn_end, and end_turn through it, removes the paralyzed and slowed
\* statuses when present, on_turn_end reporting exactly the removed ones, and
\* leaves hp, guard, armor and magic armor as they were; no turn operation
\* (on_turn_start, enemy_turn, end_turn, on_turn_end) removes the burn or
\* poison status or changes its stack count.
C20_TurnEndFrame ==
    /\ log.op \in {"on_turn_end", "end_turn"} =>
        LET b == log.before
        IN  /\ DOMAIN enemy.statuses = (DOMAIN b.statuses) \ {"paralyzed", "slowed"}
            /\ \A k \in DOMAIN enemy.statuses : enemy.statuses[k] = b.statuses[k]
            /\ enemy.hp_current = b.hp_current
            /\ enemy.guard_current = b.guard_current
            /\ enemy.armor_current = b.armor_current
            /\ enemy.magic_armor_current = b.magic_armor_current
            /\ enemy = [b EXCEPT !.statuses = enemy.statuses,
                                 !.deck_state = enemy.deck_state]
            /\ log.op = "on_turn_end" =>
                /\ Range(log.ret.removed_statuses) =
                       (DOMAIN b.statuses) \cap {"paralyzed", "slowed"}
                /\ Len(log.ret.removed_statuses) =
                       Cardinality(Range(log.ret.removed_statuses))
                /\ log.ret.hp_after = b.hp_current
                /\ log.ret.guard_after = b.guard_current
    /\ log.op \in {"on_turn_start", "enemy_turn", "end_turn", "on_turn_end"} =>
        /\ StatusOpt(enemy.statuses, "burn") = StatusOpt(log.before.statuses, "burn")
        /\ StatusOpt(enemy.statuses, "poison") = StatusOpt(log.before.statuses, "poison")

\* an on_turn_end of a paralyzed, slowed, burning and poisoned combatant with
\* guard and armor: the two transient statuses go and are reported, the burn
\* and the poison stay with their stacks
C20_Witness ==
    /\ log.op = "on_turn_end"
    /\ {"paralyzed", "slowed", "burn", "poison"} \subseteq DOMAIN log.before.statuses
    /\ log.ret.removed_statuses = <<"paralyzed", "slowed">>
    /\ DOMAIN enemy.statuses = {"burn", "poison"}
    /\ enemy.statuses["burn"] = 2 /\ enemy.statuses["poison"] = 1
    /\ enemy.guard_current = 2 /\ enemy.armor_current = 1 /\ enemy.hp_current = 1

----------------------------------------------------------------------------
(* persistence.py: a combatant as a dict and back.  An object is the       *)
(* function from the names of its attributes to their values; a dict is    *)
(* the function from its keys.                                             *)

\* the fields of the dataclass EnemyInstance
EnemyFields ==
    {"instance_id", "template_id", "name", "image",
     "hp_current", "hp_max", "armor_current", "armor_max",
     "magic_armor_current", "magic_armor_max", "guard_base", "guard_current",
     "draws_base", "movement", "rolled_loot", "loot_rolled",
     "deck_state", "statuses"}

\* dataclasses.asdict: the fields of the object, its other attributes left out
asdict(e) == [k \in EnemyFields |-> e[k]]

\* getattr(e, k, default) and d.get(k, default)
Get(d, k, default) == IF k \in DOMAIN d THEN d[k] ELSE default

\* d.setdefault(k, v)
SetDefault(d, k, v) == IF k \in DOMAIN d THEN d ELSE Assign(d, k, v)

enemy_to_dict(e) ==
    LET d == asdict(e)
        with_drawn == SetDefault(d, "last_drawn", Get(e, "last_drawn", <<>>))
        with_rolled == SetDefault(with_drawn, "loot_rolled", Get(e, "loot_rolled", FALSE))
    IN  SetDefault(with_rolled, "rolled_loot", Get(e, "rolled_loot", None))

\* the DeckState of enemy_from_dict with an empty hand whatever the dict holds
deck_state_from_dict_without_hand(deck) ==
    [draw_pile |-> Get(deck, "draw_pile", <<>>),
     discard_pile |-> Get(deck, "discard_pile", <<>>),
     hand |-> <<>>]

\* the DeckState enemy_from_dict builds from the dict of the three zones
deck_state_from_dict(deck) ==
    [draw_pile |-> Get(deck, "draw_pile", <<>>),
     discard_pile |-> Get(deck, "discard_pile", <<>>),
     hand |-> Get(deck, "hand", <<>>)]

\* enemy_from_dict: the object with the fields read from the dict, each with
\* its default, and the three attributes set after construction.  int(...),
\* list(...), dict(...) and bool(...) return the value they are given when it
\* is an int, a list, a dict or a bool, as every value enemy_to_dict writes is.
enemy_from_dict(d) ==
    LET deck == Get(d, "deck_state", EmptyDict)
        e == [instance_id |-> d["instance_id"],
              template_id |-> Get(d, "template_id", "custom"),
              name |-> Get(d, "name", Get(d, "template_id", "Enemy")),
              image |-> Get(d, "image", None),
              hp_current |-> Get(d, "hp_current", 0),
              hp_max |-> Get(d, "hp_max", 0),
              armor_current |-> Get(d, "armor_current", 0),
              armor_max |-> Get(d, "armor_max", 0),
              magic_armor_current |-> Get(d, "magic_armor_current", 0),
              magic_armor_max |-> Get(d, "magic_armor_max", 0),
              guard_base |-> Get(d, "guard_base", 0),
              guard_current |-> Get(d, "guard_current", 0),
              draws_base |-> Get(d, "draws_base", 0),
              movement |-> Get(d, "movement", 0),
              deck_state |-> deck_state_from_dict(deck),
              statuses |-> Get(d, "statuses", NoStatuses)]
        with_drawn == Assign(e, "last_drawn", Get(d, "last_drawn", <<>>))
        with_rolled == Assign(with_drawn, "loot_rolled", Get(d, "loot_rolled", FALSE))
    IN  Assign(with_rolled, "rolled_loot", Get(d, "rolled_loot", None))

\* the rolled_loot of a combatant before and after roll_loot_for_instance
NoLoot == [currency |-> EmptyDict, resources |-> EmptyDict, other |-> <<>>]
RolledLoot == [currency |-> [gp |-> 2], resources |-> EmptyDict, other |-> <<"ring">>]

\* the object with further attributes
WithAttributes(e, attrs) ==
    [k \in (DOMAIN e) \cup (DOMAIN attrs) |-> IF k \in DOMAIN attrs THEN attrs[k] ELSE e[k]]

\* the combatants of a page as objects: the enemies in the middle of a battle
\* and a player, with or without an image, with or without rolled loot, and
\* with last_drawn never set (no turn yet), or set by ui_enemy_turn
SavedEnemies ==
    { WithAttributes(WithAttributes(e, [name |-> "Goblin", image |-> image,
                                        rolled_loot |-> IF rolled THEN RolledLoot ELSE NoLoot,
                                        loot_rolled |-> rolled]),
                     drawn) :
        e \in PageEnemies("a") \cup {spawn_player("a")},
        image \in {None, "goblin.png"}, rolled \in BOOLEAN,
        drawn \in {EmptyDict, [last_drawn |-> <<"s2">>], [last_drawn |-> <<>>]} }

EnemyToDict(mode) ==
    /\ Ready(mode)
    /\ log' = [op |-> "enemy_to_dict", e |-> enemy, d |-> enemy_to_dict(enemy)]
    /\ UNCHANGED <<enemy, session, runs, disk>>

\* enemy_from_dict of the dict enemy_to_dict returned
EnemyFromDict ==
    /\ log.op = "enemy_to_dict"
    /\ enemy' = enemy_from_dict(log.d)
    /\ log' = [op |-> "enemy_from_dict", e |-> log.e, d |-> log.d]
    /\ UNCHANGED <<session, runs, disk>>

NextSave == EnemyToDict("single") \/ EnemyFromDict

\* SpecSave: a combatant of a page, taken to a dict and back
InitSave ==
    /\ enemy \in SavedEnemies
    /\ log = Idle
    /\ NoSession /\ runs = <<>> /\ disk = NoFiles

SpecSave == InitSave /\ [][NextSave]_vars

----------------------------------------------------------------------------
(* persistence.py: the save file.  save_current is taken step by step, one *)
(* file operation at a time, and the process can stop between any two.     *)

\* app.py: the version written into every payload
SAVE_VERSION == 1

\* make_save_payload, called at the time `now`
make_save_payload(now, sid, ord, sel, act, tip, enemies) ==
    [version |-> SAVE_VERSION,
     app |-> "weavers_of_power_battle_sim",
     saved_at |-> now,
     sid |-> sid,
     ui |-> [selected_id |-> sel, active_turn_id |-> act, turn_in_progress |-> tip],
     order |-> ord,
     enemies |-> [i \in 1 .. Len(enemies) |-> enemy_to_dict(enemies[i])]]

\* a combatant of a page with the attributes the page shows it with, as its
\* spawn function sets them
Shown(e) ==
    WithAttributes(e, [name |-> e.template_id, image |-> None,
                       rolled_loot |-> EmptyDict, loot_rolled |-> FALSE])

\* the pages autosave writes in SpecCrash: an empty page, a page with a
\* player, and a page with a player and an enemy that holds the turn
SavedPages ==
    { [order |-> <<>>, selected_id |-> None, active_turn_id |-> None,
       turn_in_progress |-> FALSE, enemies |-> <<>>],
      [order |-> <<"a">>, selected_id |-> "a", active_turn_id |-> None,
       turn_in_progress |-> FALSE, enemies |-> <<Shown(spawn_player("a"))>>] }
    \cup
    { [order |-> <<"b", "a">>, selected_id |-> "b", active_turn_id |-> "b",
       turn_in_progress |-> TRUE, enemies |-> <<Shown(spawn_player("a")), Shown(e)>>] :
        e \in spawn_custom_enemy("b", 1, 0, 0, 1, SessionMovement, "core") }

SavePayloads ==
    { make_save_payload(now, "sid", page.order, page.selected_id,
                        page.active_turn_id, page.turn_in_progress, page.enemies) :
        now \in 1 .. SaveMaxTime, page \in SavedPages }

\* an Optional payload: None, or the payload
Nothing == [found |-> FALSE]
Just(payload) == [found |-> TRUE, payload |-> payload]

\* json.load of a file that exists: a text cut short raises
json_load(file) ==
    IF file.text.complete THEN Just(file.text.value) ELSE Nothing

\* load_save_payload: None without a file at path; the payload of the file;
\* the payload of the .bak when the file cannot be parsed
load_save_payload(files) ==
    IF ~files.path.exists THEN Nothing
    ELSE IF json_load(files.path).found THEN json_load(files.path)
    ELSE IF files.bak.exists THEN json_load(files.bak)
    ELSE Nothing

\* the step save_current is at, and the steps at which it is under way
SaveSteps == {"exists", "replace_bak", "open", "dump", "replace"}
At(pc) == log # Idle /\ log.op = "save_current" /\ log.pc = pc
Step(pc) == log' = [log EXCEPT !.pc = pc]

\* save_current(path, payload) is called: by autosave after a handler, on a
\* page that was constructed or that the program has read its file for
SaveCurrent ==
    /\ log = Idle \/ At("done") \/ log.op = "load_save_payload"
    /\ \E data \in SavePayloads :
        log' = [op |-> "save_current", pc |-> "exists", data |-> data,
                previous |-> disk.path]
    /\ UNCHANGED <<enemy, session, runs, disk>>

\* _backup_then_write: if path.exists()
PathExists ==
    /\ At("exists")
    /\ Step(IF disk.path.exists THEN "replace_bak" ELSE "open")
    /\ UNCHANGED <<enemy, session, runs, disk>>

\* _backup_then_write: path.replace(bak), an exception of which is passed over
ReplaceBak ==
    /\ At("replace_bak")
    /\ \/ disk' = [disk EXCEPT !.bak = disk.path, !.path = Absent]
       \/ UNCHANGED disk
    /\ Step("open")
    /\ UNCHANGED <<enemy, session, runs>>

\* _atomic_write_json: tmp.open("w") creates the file or empties it
OpenTmp ==
    /\ At("open")
    /\ disk' = [disk EXCEPT !.tmp = File(log.data, FALSE)]
    /\ Step("dump")
    /\ UNCHANGED <<enemy, session, runs>>

\* _atomic_write_json: json.dump, flush and fsync
DumpTmp ==
    /\ At("dump")
    /\ disk' = [disk EXCEPT !.tmp = File(log.data, TRUE)]
    /\ Step("replace")
    /\ UNCHANGED <<enemy, session, runs>>

\* _atomic_write_json: tmp.replace(path)
ReplacePath ==
    /\ At("replace")
    /\ disk' = [disk EXCEPT !.path = disk.tmp, !.tmp = Absent]
    /\ Step("done")
    /\ UNCHANGED <<enemy, session, runs>>

\* the process stops before the step it is at; the files stay as they are
Stop ==
    /\ log # Idle /\ log.op = "save_current" /\ log.pc \in SaveSteps
    /\ Step("stopped")
    /\ UNCHANGED <<enemy, session, runs, disk>>

\* load_save_payload(path), called by load_or_init_current when the page is
\* opened again after the save ended or stopped
LoadSavePayload ==
    /\ At("done") \/ At("stopped")
    /\ log' = [op |-> "load_save_payload", stopped |-> log.pc = "stopped",
               data |-> log.data, previous |-> log.previous,
               ret |-> load_save_payload(disk)]
    /\ UNCHANGED <<enemy, session, runs, disk>>

NextCrash ==
    \/ SaveCurrent \/ PathExists \/ ReplaceBak \/ OpenTmp \/ DumpTmp \/ ReplacePath
    \/ Stop \/ LoadSavePayload

\* SpecCrash: a page whose save directory is empty
InitCrash ==
    /\ enemy = None
    /\ log = Idle
    /\ NoSession /\ runs = <<>> /\ disk = NoFiles

SpecCrash == InitCrash /\ [][NextCrash]_vars

----------------------------------------------------------------------------
(* app.py: loading a save into the page *)

\* restore_state_from_payload: the order, the three pointers and the
\* combatants of the payload; a combatant without instance_id raises KeyError
restore_state_from_payload(payload) ==
    LET ui == Get(payload, "ui", EmptyDict)
        enemies_raw == Get(payload, "enemies", <<>>)
    IN  IF \E i \in 1 .. Len(enemies_raw) : "instance_id" \notin DOMAIN enemies_raw[i]
        THEN [error |-> TRUE]
        ELSE [error |-> FALSE,
              order |-> Get(payload, "order", <<>>),
              selected_id |-> Get(ui, "selected_id", None),
              active_turn_id |-> Get(ui, "active_turn_id", None),
              turn_in_progress |-> Get(ui, "turn_in_progress", FALSE),
              enemies |-> [i \in 1 .. Len(enemies_raw) |-> enemy_from_dict(enemies_raw[i])]]

\* the loop `for e in enemies: state.add_enemy(e)` from its i-th combatant on:
\* the roster when the loop ends, or when add_enemy raises
RECURSIVE add_enemies(_, _, _)
add_enemies(enemies, loaded, i) ==
    IF i > Len(loaded) THEN [error |-> FALSE, enemies |-> enemies]
    ELSE LET r == add_enemy(enemies, loaded[i])
         IN  IF r.error THEN r ELSE add_enemies(r.enemies, loaded, i + 1)

\* [iid for iid in loaded_order if iid in state.enemies]
RECURSIVE ids_in(_, _)
ids_in(loaded_order, enemies) ==
    IF loaded_order = <<>> THEN <<>>
    ELSE (IF Head(loaded_order) \in DOMAIN enemies THEN <<Head(loaded_order)>> ELSE <<>>)
         \o ids_in(Tail(loaded_order), enemies)

\* the page as load_from_payload found it cleared, with the roster it holds
Cleared(error, enemies) ==
    [error |-> error, enemies |-> enemies, order |-> <<>>, selected_id |-> None,
     active_turn_id |-> None, turn_in_progress |-> FALSE]

\* load_from_payload taking the active turn and turn_in_progress as saved
load_from_payload_as_saved(payload) ==
    LET loaded == restore_state_from_payload(payload)
    IN  IF loaded.error THEN Cleared(TRUE, EmptyDict)
        ELSE LET added == add_enemies(EmptyDict, loaded.enemies, 1)
                 ord == ids_in(loaded.order, added.enemies)
             IN  IF added.error THEN Cleared(TRUE, added.enemies)
                 ELSE [error |-> FALSE, enemies |-> added.enemies, order |-> ord,
                       selected_id |-> IF loaded.selected_id \in DOMAIN added.enemies
                                       THEN loaded.selected_id
                                       ELSE IF ord # <<>> THEN ord[1] ELSE None,
                       active_turn_id |-> loaded.active_turn_id,
                       turn_in_progress |-> loaded.turn_in_progress]

\* load_from_payload: the page is cleared, the payload is read, its combatants
\* are added one by one, and the order and the pointers are taken from it as
\* far as they name combatants of the roster; error when a step raised, with
\* the page as that step left it
load_from_payload(payload) ==
    LET loaded == restore_state_from_payload(payload)
    IN  IF loaded.error THEN Cleared(TRUE, EmptyDict)
        ELSE LET added == add_enemies(EmptyDict, loaded.enemies, 1)
                 ord == ids_in(loaded.order, added.enemies)
                 holds == loaded.active_turn_id \in DOMAIN added.enemies
             IN  IF added.error THEN Cleared(TRUE, added.enemies)
                 ELSE [error |-> FALSE, enemies |-> added.enemies, order |-> ord,
                       selected_id |-> IF loaded.selected_id \in DOMAIN added.enemies
                                       THEN loaded.selected_id
                                       ELSE IF ord # <<>> THEN ord[1] ELSE None,
                       active_turn_id |-> IF holds THEN loaded.active_turn_id ELSE None,
                       turn_in_progress |-> IF holds THEN loaded.turn_in_progress ELSE FALSE]

\* a dict without one of its keys
Without(d, k) == [x \in (DOMAIN d) \ {k} |-> d[x]]

\* the payloads of the save files of the load dialog: written by save_manual
\* from a page, and such payloads edited by hand: an active turn or a selection
\* that names no combatant, a turn in progress that nobody holds, an order with
\* a foreign id, the same instance_id twice, a combatant without instance_id
LoadPayloads ==
    LET written == { make_save_payload(1, "sid", page.order, page.selected_id,
                                       page.active_turn_id, page.turn_in_progress,
                                       page.enemies) : page \in SavedPages }
        pairs == { p \in written : Len(p.enemies) = 2 }
    IN  written
        \cup { [p EXCEPT !.ui.active_turn_id = "c", !.ui.selected_id = "c"] : p \in pairs }
        \cup { [p EXCEPT !.ui.active_turn_id = None] : p \in pairs }
        \cup { [p EXCEPT !.order = <<"c">> \o p.order] : p \in pairs }
        \cup { [p EXCEPT !.enemies[2].instance_id = p.enemies[1].instance_id] : p \in pairs }
        \cup { [p EXCEPT !.enemies[2] = Without(p.enemies[2], "instance_id")] : p \in pairs }

\* the files of the load dialog: none, one that holds a payload, one cut short
SaveFiles ==
    {Absent} \cup { File(p, TRUE) : p \in LoadPayloads }
             \cup { File(p, FALSE) : p \in { q \in LoadPayloads : q.order = <<>> } }

\* do_load_selected: without a payload it notifies and returns; else it calls
\* load_from_payload, and autosave and the renderers after it returned
DoLoadSelected(mode) ==
    /\ Ready(mode)
    /\ UNCHANGED <<enemy, runs, disk>>
    /\ \E file \in SaveFiles :
        LET payload == load_save_payload([path |-> file, bak |-> Absent, tmp |-> Absent])
        IN  IF ~payload.found THEN Returned("do_load_selected", selected_id, TRUE)
            ELSE LET r == load_from_payload(payload.payload)
                 IN  /\ state' = [state EXCEPT !.enemies = r.enemies]
                     /\ order' = r.order
                     /\ selected_id' = r.selected_id
                     /\ active_turn_id' = r.active_turn_id
                     /\ turn_in_progress' = r.turn_in_progress
                     /\ log' = Called("do_load_selected",
                                      IF r.error THEN "raised" ELSE "done", -1, FALSE, {})

\* any sequence of loads and of calls of the handlers that add or delete a
\* combatant, select one, or move the active turn
NextLoad ==
    \/ DoLoadSelected("observed")
    \/ UiAddPlayer("observed")
    \/ UiAddCustomEnemy("observed")
    \/ UiDeleteItem("observed")
    \/ UiSelect("observed")
    \/ UiEnemyTurn("observed")
    \/ UiEnemyTurnNoDraw("observed")
    \/ UiEndTurn("observed")
    \/ UiNext("observed")

\* SpecLoad: a page from its construction, under any sequence of handler calls
\* and loads
SpecLoad == InitSession /\ [][NextLoad]_vars

----------------------------------------------------------------------------
(* The roster of a page *)

\* the handlers that add a combatant
AddOps == {"ui_add_enemy", "ui_add_player", "ui_add_custom_enemy"}

\* the ids of a list are all different
Distinct(ord) == \A i, j \in 1 .. Len(ord) : ord[i] = ord[j] => i = j

\* C21: adding a combatant whose instance_id is already in the roster fails and
\* leaves the roster, the existing entry included, as it was; an accepted add
\* brings a new key and touches no other entry; so after every step each key
\* maps to a combatant with that instance_id, and the order lists every id
\* once; removing an absent id changes nothing.
C21_RosterKeys ==
    [][ /\ \A k \in DOMAIN state'.enemies : state'.enemies[k].instance_id = k
        /\ Distinct(order') /\ Range(order') = DOMAIN state'.enemies
        /\ \A k \in DOMAIN state.enemies :
            add_enemy(state.enemies, spawn_player(k)) =
                [error |-> TRUE, enemies |-> state.enemies]
        /\ \A k \in Ids \ DOMAIN state.enemies :
            remove_enemy(state.enemies, k) = state.enemies
        /\ (log'.op \in AddOps /\ log'.outcome = "raised") => UNCHANGED <<state, order>>
        /\ (log'.op \in AddOps /\ log'.outcome = "done") =>
            /\ selected_id' \notin DOMAIN state.enemies
            /\ DOMAIN state'.enemies = (DOMAIN state.enemies) \cup {selected_id'}
            /\ \A k \in DOMAIN state.enemies : state'.enemies[k] = state.enemies[k]
        /\ (log'.op = "ui_delete_item" /\ DOMAIN state'.enemies = DOMAIN state.enemies) =>
            UNCHANGED <<state, order>>
      ]_vars

\* an add that was refused for its id, on a roster of two whose entries carry
\* their keys, one of them no longer as it was spawned
C21_Witness ==
    /\ log.op \in AddOps /\ log.outcome = "raised"
    /\ DOMAIN state.enemies = Ids
    /\ \A k \in Ids : state.enemies[k].instance_id = k
    /\ \E k \in Ids : state.enemies[k].deck_state.hand # <<>>

\* the handlers that take a combatant out of the roster
DeleteOps == {"ui_delete_item"}

\* C22: the roster and the order list change their members only in the add
\* and delete handlers, an add by one new id and a delete by one id; under
\* every other handler (attack, heal, Draw, no-draw turn, End turn, Next,
\* select, reorder) every combatant, one at 0 hp included, stays in the roster
\* and in the order.
C22_MembershipFrame ==
    [][ /\ log'.op \notin AddOps \cup DeleteOps =>
            /\ DOMAIN state'.enemies = DOMAIN state.enemies
            /\ Range(order') = Range(order) /\ Len(order') = Len(order)
        /\ log'.op \in AddOps =>
            /\ DOMAIN state.enemies \subseteq DOMAIN state'.enemies
            /\ Cardinality(DOMAIN state'.enemies) <= Cardinality(DOMAIN state.enemies) + 1
        /\ log'.op \in DeleteOps =>
            /\ DOMAIN state'.enemies \subseteq DOMAIN state.enemies
            /\ Cardinality(DOMAIN state.enemies) <= Cardinality(DOMAIN state'.enemies) + 1
        /\ Range(order') = DOMAIN state'.enemies
      ]_vars

\* after Next, a combatant that an attack brought to 0 hp is still in the roster
\* and in the order, next to a second combatant
C22_Witness ==
    /\ log.op = "ui_next"
    /\ DOMAIN state.enemies = Ids /\ Range(order) = Ids
    /\ \E k \in Ids :
        /\ ~is_player(state.enemies[k])
        /\ state.enemies[k].hp_current = 0 /\ state.enemies[k].hp_max > 0
        /\ state.enemies[k].deck_state.discard_pile # <<>>

----------------------------------------------------------------------------
(* The turn handlers of a page *)

\* what the turn handlers must not touch when they refuse
TurnState == <<state, order, active_turn_id, turn_in_progress>>

\* C23: Draw and the no-draw turn on a selected enemy while another combatant
\* holds active_turn_id, and End turn on a selected enemy that is not the
\* active one or while turn_in_progress is false, warn and leave every
\* combatant, active_turn_id and turn_in_progress as they were; so does every
\* handler that returns early.
C23_IllegalTransitions ==
    [][ LET sel == get_selected
            an_enemy == IF sel = None THEN FALSE ELSE ~is_player(state.enemies[sel])
        IN  /\ ( /\ log'.op \in {"ui_enemy_turn", "ui_enemy_turn_no_draw"}
                 /\ an_enemy
                 /\ active_turn_id # None /\ active_turn_id # sel )
               => (log'.outcome = "warned" /\ UNCHANGED TurnState)
            /\ ( /\ log'.op = "ui_end_turn"
                 /\ an_enemy
                 /\ (active_turn_id # sel \/ ~turn_in_progress) )
               => (log'.outcome = "warned" /\ UNCHANGED TurnState)
            /\ log'.outcome \in {"warned", "returned"} => UNCHANGED TurnState
      ]_vars

\* a Draw that was refused: the selected enemy has no card in hand, another
\* enemy holds the turn with a card in hand
C23_Witness ==
    /\ log.op = "ui_enemy_turn" /\ log.outcome = "warned"
    /\ active_turn_id # None /\ active_turn_id # selected_id /\ turn_in_progress
    /\ state.enemies[active_turn_id].deck_state.hand # <<>>
    /\ ~is_player(state.enemies[selected_id])
    /\ state.enemies[selected_id].deck_state.hand = <<>>

\* C24: at most one combatant is mid-turn: after every step every combatant
\* with a card in hand is the one active_turn_id refers to, and the pointer
\* moves to a combatant only from None (the turn before was ended, or its
\* holder deleted).
C24_OneMidTurn ==
    [][ /\ \A k \in DOMAIN state'.enemies :
            state'.enemies[k].deck_state.hand # <<>> => k = active_turn_id'
        /\ (active_turn_id' # None /\ active_turn_id' # active_turn_id) =>
            active_turn_id = None
      ]_vars

\* C28: a combatant that was paralysed since its last draw phase is asked for
\* max(0, draws_base - 1) cards by its next draw phase.
C28_ParalysedDrawsFewer ==
    (log.op = "ui_enemy_turn" /\ log.outcome = "done" /\ log.owed) =>
        log.requested = Max(0, state.enemies[selected_id].draws_base - 1)

\* C29: the no-draw turn of the selected enemy sets guard_current to
\* guard_base, takes the damage over time (the burn and poison stacks, negative
\* ones counting 0) from hp with a floor of 0, removes paralyzed and slowed and
\* nothing else, leaves draw_pile, discard_pile and hand and every other
\* combatant as they were, and ends with active_turn_id = None and
\* turn_in_progress = false, so that no enemy of the page is refused a turn.
C29_NoDrawTurn ==
    [][ (log'.op = "ui_enemy_turn_no_draw" /\ log'.outcome = "done") =>
        LET sel == selected_id'
            b == state.enemies[sel]
            a == state'.enemies[sel]
            dot == Max(0, DotStacks(b.statuses, "burn"))
                   + Max(0, DotStacks(b.statuses, "poison"))
        IN  /\ a.guard_current = b.guard_base
            /\ a.hp_current = Max(0, b.hp_current - dot)
            /\ DOMAIN a.statuses = (DOMAIN b.statuses) \ {"paralyzed", "slowed"}
            /\ \A k \in DOMAIN a.statuses : a.statuses[k] = b.statuses[k]
            /\ a.deck_state = b.deck_state
            /\ a = [b EXCEPT !.guard_current = a.guard_current,
                             !.hp_current = a.hp_current,
                             !.statuses = a.statuses]
            /\ DOMAIN state'.enemies = DOMAIN state.enemies
            /\ \A k \in (DOMAIN state.enemies) \ {sel} :
                state'.enemies[k] = state.enemies[k]
            /\ active_turn_id' = None /\ turn_in_progress' = FALSE
            /\ \A k \in DOMAIN state'.enemies :
                ~(active_turn_id' # None /\ active_turn_id' # k)
      ]_vars

\* after a no-draw turn: the guard is the base guard (it was not before), the
\* burn took the last hp, paralyzed and slowed are gone and the burn is not,
\* the card in hand is still there, nobody holds the turn and a second enemy
\* is on the page
C29_Witness ==
    /\ log.op = "ui_enemy_turn_no_draw" /\ log.outcome = "done"
    /\ active_turn_id = None /\ ~turn_in_progress
    /\ LET e == state.enemies[selected_id]
       IN  /\ e.guard_current = e.guard_base
           /\ e.hp_current = 0
           /\ DOMAIN e.statuses = {"burn"}
           /\ e.deck_state.hand # <<>>
    /\ \E k \in (DOMAIN state.enemies) \ {selected_id} : ~is_player(state.enemies[k])

----------------------------------------------------------------------------
(* The movement shown for a combatant *)

\* the combatant whose turn the accepted handler call just ended, None if none
TurnEnded ==
    IF log'.outcome # "done" THEN None
    ELSE IF log'.op \in {"ui_end_turn", "ui_enemy_turn_no_draw"} THEN selected_id'
    ELSE IF log'.op = "ui_next" /\ active_turn_id \in DOMAIN state.enemies
    THEN IF is_player(state.enemies[active_turn_id]) THEN None ELSE active_turn_id
    ELSE None

\* C30: for every combatant of the page the effective movement is the floor of
\* half the movement (the one integer m with 2m <= movement < 2m + 2) while
\* slowed is among its statuses and the movement itself otherwise, and it is
\* never negative; the combatant whose turn was just ended (End turn, Next or
\* the no-draw turn, i.e. end_turn or on_turn_end) is not slowed any more and
\* its effective movement is its movement.
C30_EffectiveMovement ==
    [][ /\ \A k \in DOMAIN state'.enemies :
            LET e == state'.enemies[k]
                m == effective_movement(e)
            IN  /\ m >= 0
                /\ "slowed" \in DOMAIN e.statuses =>
                    (2 * m <= e.movement /\ e.movement < 2 * m + 2)
                /\ "slowed" \notin DOMAIN e.statuses => m = e.movement
        /\ TurnEnded # None =>
            /\ "slowed" \notin DOMAIN state'.enemies[TurnEnded].statuses
            /\ effective_movement(state'.enemies[TurnEnded])
                   = state.enemies[TurnEnded].movement
      ]_vars

\* End turn was accepted for an enemy that moves its full movement again, while
\* a second, slowed combatant of movement 1 does not move at all
C30_Witness ==
    /\ log.op = "ui_end_turn" /\ log.outcome = "done"
    /\ LET e == state.enemies[selected_id]
       IN  e.movement = SessionMovement /\ effective_movement(e) = SessionMovement
    /\ \E k \in (DOMAIN state.enemies) \ {selected_id} :
        LET o == state.enemies[k]
        IN  /\ "slowed" \in DOMAIN o.statuses
            /\ o.movement = 1
            /\ effective_movement(o) = 0

----------------------------------------------------------------------------
(* Spawning *)

\* the sum of the weights of the cards of a sequence that carry the id
RECURSIVE WeightOf(_, _)
WeightOf(cards, id) ==
    IF cards = <<>> THEN 0
    ELSE (IF Head(cards).id = id THEN Head(cards).weight ELSE 0)
         + WeightOf(Tail(cards), id)

Within(v, rng) == rng.min <= v /\ v <= rng.max

\* C27: a call of spawn_enemy with a template whose core deck is not among the
\* decks raises and leaves no combatant (so does one whose base guard range is
\* empty, and no other); a call that returns returns a combatant with hp_max,
\* armor_max, magic_armor_max and guard_base within the template's ranges, the
\* three currents equal to their maxima, guard_current 0, no
\* status, empty discard_pile and hand, and a draw_pile that holds every card
\* id as often as the weights of the core deck and of the specials add up to
\* for it, and nothing else.
C27_Spawn ==
    log.op = "spawn_enemy" =>
        LET t == log.template
        IN  IF log.error
            THEN /\ enemy = None
                 /\ t.coreDeck \notin DOMAIN Decks \/ t.baseGuard.min > t.baseGuard.max
            ELSE /\ t.coreDeck \in DOMAIN Decks
                 /\ Within(enemy.hp_max, t.hp)
                 /\ Within(enemy.armor_max, t.armor)
                 /\ Within(enemy.magic_armor_max, t.magicArmor)
                 /\ Within(enemy.guard_base, t.baseGuard)
                 /\ enemy.hp_current = enemy.hp_max
                 /\ enemy.armor_current = enemy.armor_max
                 /\ enemy.magic_armor_current = enemy.magic_armor_max
                 /\ enemy.guard_current = 0
                 /\ DOMAIN enemy.statuses = {}
                 /\ enemy.deck_state.discard_pile = <<>>
                 /\ enemy.deck_state.hand = <<>>
                 /\ \A id \in Range(enemy.deck_state.draw_pile)
                           \cup { c.id : c \in Range(Decks[t.coreDeck].cards) }
                           \cup { c.id : c \in Range(t.specials) } :
                        Count(enemy.deck_state.draw_pile, id)
                            = WeightOf(Decks[t.coreDeck].cards, id)
                              + WeightOf(t.specials, id)

\* a spawn from the deck of weight 2 rolled the upper ends of its ranges and
\* shuffled the pool out of its built order
C27_Witness ==
    /\ log.op = "spawn_enemy" /\ ~log.error
    /\ log.template.coreDeck = "twin"
    /\ log.template.baseGuard.min < log.template.baseGuard.max
    /\ enemy.hp_max = SpawnMaxHp /\ enemy.guard_base = MaxGuardRoll
    /\ Count(enemy.deck_state.draw_pile, "c1") = 2
    /\ Head(enemy.deck_state.draw_pile) = "s3"

\* a spawn from the template of the missing deck raised
C27_WitnessLost ==
    log.op = "spawn_enemy" /\ log.error /\ log.template.coreDeck = "lost"

----------------------------------------------------------------------------
(* Determinism of the turn cycle *)

\* C26: two executions of spawn_enemy, enemy_turn, end_turn, enemy_turn on the
\* same template and decks, every call given a generator of the same seed,
\* that stand at the same call have drawn the same card ids in the same order
\* and hold the same draw_pile, discard_pile and hand (and the same rest of the
\* combatant), whatever the entropy outside the generator is in each.
C26_Deterministic ==
    (runs[1].rnd.given /\ runs[1].pc = runs[2].pc) =>
        /\ runs[1].drawn = runs[2].drawn
        /\ runs[1].pc # "spawn_enemy" =>
            /\ runs[1].enemy.deck_state = runs[2].enemy.deck_state
            /\ runs[1].enemy = runs[2].enemy
        /\ runs[1].rnd = runs[2].rnd

\* both executions are through, seeded alike and with different entropy
\* outside the generator (the instance ids differ); the second turn drew
\* three cards across a reshuffle, and not the three of the first turn in
\* their order
C26_Witness ==
    /\ runs[1].rnd.given
    /\ runs[1].pc = "done" /\ runs[2].pc = "done"
    /\ runs[1].hidden # runs[2].hidden
    /\ runs[1].instance_id # runs[2].instance_id
    /\ Len(runs[1].drawn[2]) = 3
    /\ runs[1].drawn[2] # runs[1].drawn[1]
    /\ runs[1].enemy.deck_state.draw_pile # <<>>

----------------------------------------------------------------------------
(* The round trip through a dict *)

\* last_drawn as the driver reads it: getattr(e, "last_drawn", [])
LastDrawn(e) == IF "last_drawn" \in DOMAIN e THEN e.last_drawn ELSE <<>>

\* C25: enemy_from_dict(enemy_to_dict(e)) has the instance_id, template_id,
\* name and image of e, its hp, armor and magic armor (current and max), its
\* guard_base, guard_current, draws_base and movement, its statuses, its
\* draw_pile, discard_pile and hand in their order, its rolled_loot and
\* loot_rolled, and the last_drawn the driver reads from e (the empty list for
\* a combatant that never drew); a combatant that has drawn comes back as the
\* very same object.
C25_RoundTrip ==
    log.op = "enemy_from_dict" =>
        LET e == log.e
        IN  /\ enemy.instance_id = e.instance_id
            /\ enemy.template_id = e.template_id
            /\ enemy.name = e.name
            /\ enemy.image = e.image
            /\ enemy.hp_current = e.hp_current /\ enemy.hp_max = e.hp_max
            /\ enemy.armor_current = e.armor_current
            /\ enemy.armor_max = e.armor_max
            /\ enemy.magic_armor_current = e.magic_armor_current
            /\ enemy.magic_armor_max = e.magic_armor_max
            /\ enemy.guard_base = e.guard_base
            /\ enemy.guard_current = e.guard_current
            /\ enemy.draws_base = e.draws_base
            /\ enemy.movement = e.movement
            /\ enemy.statuses = e.statuses
            /\ enemy.deck_state.draw_pile = e.deck_state.draw_pile
            /\ enemy.deck_state.discard_pile = e.deck_state.discard_pile
            /\ enemy.deck_state.hand = e.deck_state.hand
            /\ enemy.rolled_loot = e.rolled_loot
            /\ enemy.loot_rolled = e.loot_rolled
            /\ enemy.last_drawn = LastDrawn(e)
            /\ DOMAIN enemy = EnemyFields \cup {"last_drawn"}
            /\ "last_drawn" \in DOMAIN e => enemy = e

\* a slowed, burning enemy in the middle of its turn, with a card in hand, the
\* card as last_drawn and loot rolled, came back from its dict
C25_Witness ==
    /\ log.op = "enemy_from_dict"
    /\ log.e.deck_state.hand = <<"s2">>
    /\ LastDrawn(log.e) = <<"s2">>
    /\ DOMAIN log.e.statuses = {"burn", "slowed"}
    /\ log.e.loot_rolled /\ log.e.rolled_loot = RolledLoot
    /\ enemy.deck_state.hand = <<"s2">>

\* a combatant that never drew came back from its dict
C25_WitnessNeverDrew ==
    /\ log.op = "enemy_from_dict"
    /\ "last_drawn" \notin DOMAIN log.e
    /\ enemy.last_drawn = <<>>

----------------------------------------------------------------------------
(* Guard before hp *)

\* the guard points an attack bypasses: all of them with pierce, one (if there
\* is one) with stab alone, none otherwise
BypassedGuard(guard_b, mods) ==
    IF "pierce" \in mods THEN guard_b
    ELSE IF "stab" \in mods /\ guard_b >= 1 THEN 1
    ELSE 0

\* the armor that counts against an attack: the armor left by sunder, none of
\* it with pierce, one point less with stab when there is no guard to bypass
CountedArmor(guard_b, armor_b, mods) ==
    LET sundered == IF "sunder" \in mods /\ armor_b >= 1 THEN armor_b - 1 ELSE armor_b
    IN  IF "pierce" \in mods THEN 0
        ELSE IF "stab" \in mods /\ guard_b = 0 /\ sundered >= 1 THEN sundered - 1
        ELSE sundered

CountedMagic(magic_b, mods) == IF "magic_pierce" \in mods THEN 0 ELSE magic_b

\* C34: an accepted apply_attack that reports damage_to_hp > 0 leaves exactly
\* the bypassed guard points in guard_current (none without stab and pierce):
\* all the guard that counted was spent first; and an attack whose damage is at
\* most the armor and magic armor that count changes neither guard_current
\* nor hp_current.
C34_GuardBeforeHp ==
    (log.op = "apply_attack" /\ ~log.error) =>
        LET b == log.before
            mods == log.args.mods
        IN  /\ log.ret.damage_to_hp > 0 =>
                enemy.guard_current = BypassedGuard(b.guard_current, mods)
            /\ log.args.damage <= CountedArmor(b.guard_current, b.armor_current, mods)
                                   + CountedMagic(b.magic_armor_current, mods) =>
                /\ enemy.guard_current = b.guard_current
                /\ enemy.hp_current = b.hp_current
                /\ log.ret.damage_to_hp = 0

\* a stab through three guard points and two of armor reached the hp: two
\* guard points were spent, the bypassed one is left
C34_Witness ==
    /\ log.op = "apply_attack" /\ ~log.error
    /\ log.args.mods = {"stab"}
    /\ log.before.guard_current = CombatMaxGuard
    /\ log.before.armor_current = CombatMaxArmor
    /\ log.ret.damage_to_hp > 0 /\ enemy.hp_current < log.before.hp_current
    /\ enemy.guard_current = 1

\* an attack of positive damage was absorbed by armor and magic armor alone
C34_WitnessAbsorbed ==
    /\ log.op = "apply_attack" /\ ~log.error
    /\ log.args.mods = {} /\ log.args.damage = CombatMaxArmor + 1
    /\ log.before.armor_current = CombatMaxArmor
    /\ log.before.magic_armor_current = 1
    /\ log.before.guard_current > 0
    /\ enemy = log.before

----------------------------------------------------------------------------
(* One turn start per turn *)

\* C31: a Draw accepted for the combatant that already holds the active turn
\* (it drew, its turn has not ended) leaves its guard_current, its hp_current
\* and its hand as they are: the turn-start step and the draw ran once, when
\* the turn was acquired.
C31_TurnStartOnce ==
    [][ (/\ log'.op = "ui_enemy_turn" /\ log'.outcome = "done"
         /\ active_turn_id = selected_id' /\ turn_in_progress) =>
        LET b == state.enemies[active_turn_id]
            a == state'.enemies[active_turn_id]
        IN  /\ a.guard_current = b.guard_current
            /\ a.hp_current = b.hp_current
            /\ a.deck_state.hand = b.deck_state.hand
      ]_vars

----------------------------------------------------------------------------
(* Next *)

\* C38: after Next nobody holds the turn (active_turn_id = None,
\* turn_in_progress false); an enemy that held it has an empty hand, its cards
\* appended to its discard pile in their order, its draw pile as before, and
\* neither paralyzed nor slowed, its other statuses untouched; no turn start
\* ran: every guard_current and hp_current is as before, every other combatant
\* is unchanged, roster and order are the same; the selection is None on an
\* empty order, the first entry when the selected id is not in the order, and
\* otherwise the entry after the selected one, the first after the last.
C38_Next ==
    [][ log'.op = "ui_next" =>
        /\ active_turn_id' = None /\ turn_in_progress' = FALSE
        /\ DOMAIN state'.enemies = DOMAIN state.enemies
        /\ order' = order
        /\ \A k \in DOMAIN state.enemies :
            LET b == state.enemies[k]
                a == state'.enemies[k]
            IN  /\ a.guard_current = b.guard_current
                /\ a.hp_current = b.hp_current
                /\ IF k = active_turn_id /\ ~is_player(b)
                   THEN /\ a.deck_state.hand = <<>>
                        /\ a.deck_state.discard_pile
                               = b.deck_state.discard_pile \o b.deck_state.hand
                        /\ a.deck_state.draw_pile = b.deck_state.draw_pile
                        /\ DOMAIN a.statuses
                               = (DOMAIN b.statuses) \ {"paralyzed", "slowed"}
                        /\ \A n \in DOMAIN a.statuses : a.statuses[n] = b.statuses[n]
                   ELSE a = b
        /\ IF order = <<>> THEN selected_id' = None
           ELSE IF selected_id \notin Range(order) THEN selected_id' = order[1]
           ELSE \E i \in 1 .. Len(order) :
                /\ order[i] = selected_id
                /\ selected_id' = order[IF i = Len(order) THEN 1 ELSE i + 1]
      ]_vars

\* Next ended the turn of a burning enemy whose guard is off its base: the
\* card it held lies on its discard pile behind the one that was there, the
\* burn is all that is left of its statuses, the guard was not reset, and the
\* selection stands on the first of two entries
C38_Witness ==
    /\ log.op = "ui_next"
    /\ active_turn_id = None /\ ~turn_in_progress
    /\ Len(order) = 2 /\ selected_id = order[1]
    /\ \E k \in DOMAIN state.enemies :
        LET e == state.enemies[k]
        IN  /\ e.deck_state.hand = <<>>
            /\ e.deck_state.discard_pile = <<"s1", "s2">>
            /\ DOMAIN e.statuses = {"burn"}
            /\ e.guard_current # e.guard_base
            /\ e.hp_current > 0

----------------------------------------------------------------------------
(* The guard after a Draw *)

\* the sum of the amounts of the guard effects on a list of cards
RECURSIVE GuardOn(_)
GuardOn(cards) ==
    IF cards = <<>> THEN 0
    ELSE LET effects == card_index[Head(cards)]
             guards == { i \in DOMAIN effects : effects[i].type = "guard" }
         IN  (IF guards = {} THEN 0 ELSE effects[CHOOSE i \in guards : TRUE].amount)
             + GuardOn(Tail(cards))

\* C39: an accepted Draw appends the cards it drew to the hand and records
\* exactly them as last_drawn; when the combatant is alive after it,
\* guard_current is guard_base plus the guard amounts on those cards, capped
\* at 9999, whatever guard_current was before.
C39_GuardAfterDraw ==
    [][ (log'.op = "ui_enemy_turn" /\ log'.outcome = "done") =>
        LET b == state.enemies[selected_id']
            a == state'.enemies[selected_id']
        IN  /\ a.deck_state.hand = b.deck_state.hand \o a.last_drawn
            /\ Len(a.last_drawn) <= log'.requested
            /\ a.hp_current > 0 =>
                a.guard_current
                    = Min(GuardCeiling, b.guard_base + GuardOn(a.last_drawn))
      ]_vars

\* a Draw took the guard card: the guard is the base guard plus its amount
C39_Witness ==
    /\ log.op = "ui_enemy_turn" /\ log.outcome = "done"
    /\ LET e == state.enemies[selected_id]
       IN  /\ e.hp_current > 0
           /\ e.last_drawn = <<"s1">>
           /\ e.guard_base = 1 /\ e.guard_current = 2

----------------------------------------------------------------------------
(* Players *)

\* C37: no handler call changes a roster entry whose template_id is 'player'
\* (its vitals, guard, statuses, card zones and everything else stay as they
\* are for as long as it is on the page), and the combatant active_turn_id
\* refers to after the call is never a player.
C37_PlayersInert ==
    [][ /\ \A k \in (DOMAIN state.enemies) \cap (DOMAIN state'.enemies) :
            state.enemies[k].template_id = "player" =>
                state'.enemies[k] = state.enemies[k]
        /\ active_turn_id' # None =>
            state'.enemies[active_turn_id'].template_id # "player"
      ]_vars

\* Draw was pressed with a player selected and returned: the player has no
\* cards, no guard and no status, and does not hold the turn
C37_Witness ==
    /\ log.op = "ui_enemy_turn" /\ log.outcome = "returned"
    /\ selected_id # None
    /\ LET e == state.enemies[selected_id]
       IN  /\ e.template_id = "player"
           /\ e.deck_state.hand = <<>> /\ e.guard_current = 0
           /\ DOMAIN e.statuses = {}
    /\ active_turn_id # selected_id

----------------------------------------------------------------------------
(* The display order *)

\* C33: after every addition, deletion, move and Next on a page that started
\* empty, the order holds every instance_id of the roster exactly once and
\* nothing else; a move leaves the order as it is or exchanges two entries
\* that stand next to each other.
C33_OrderIsPermutation ==
    [][ /\ Len(order') = Cardinality(DOMAIN state'.enemies)
        /\ Range(order') = DOMAIN state'.enemies
        /\ log'.op = "move_in_order" =>
            \/ order' = order
            \/ \E i \in 1 .. Len(order) - 1 :
                order' = [order EXCEPT ![i] = order[i + 1], ![i + 1] = order[i]]
      ]_vars

\* a move on a page of three combatants, one of them a template enemy and one
\* a player, left the third-added in front of the second-added
C33_Witness ==
    /\ log.op = "move_in_order"
    /\ order = <<"a", "c", "b">>
    /\ DOMAIN state.enemies = {"a", "b", "c"}
    /\ \E k \in DOMAIN state.enemies : state.enemies[k].template_id = "goblin"
    /\ \E k \in DOMAIN state.enemies : state.enemies[k].template_id = "player"

----------------------------------------------------------------------------
(* Damage over time, turn after turn *)

\* C35: for a combatant with at least one stack of burn or poison that takes
\* turn after turn and is never healed, every turn start (of enemy_turn or of
\* the no-draw turn) that finds it alive lowers its hp_current, the hp reaches
\* 0, and from then on it stays 0 and no enemy_turn draws a card or changes a
\* card zone.
C35_DotKills ==
    /\ [][ (log'.op \in {"enemy_turn", "on_turn_start"} /\ enemy.hp_current > 0) =>
            enemy'.hp_current < enemy.hp_current ]_vars
    /\ <>(enemy.hp_current = 0)
    /\ [](enemy.hp_current = 0 => [](enemy.hp_current = 0))
    /\ []((enemy.hp_current = 0 /\ log.op = "enemy_turn") =>
            /\ log.ret.drawn = <<>>
            /\ enemy.deck_state = log.before.deck_state)

\* an enemy_turn of a combatant that was already at 0 hp with cards to draw:
\* nothing was drawn
C35_Witness ==
    /\ log.op = "enemy_turn"
    /\ log.before.hp_current = 0 /\ enemy.hp_current = 0
    /\ log.before.deck_state.draw_pile # <<>>
    /\ log.ret.drawn = <<>>
    /\ DOMAIN enemy.statuses = {"poison"}

----------------------------------------------------------------------------
(* Stopping in the middle of a save *)

\* C36: when a save file was there before save_current began, a
\* load_save_payload after the save ended or stopped at any of its steps
\* returns a payload, and that payload is the one the file held before or the
\* one being saved, whole.
C36_CrashSafe ==
    (log # Idle /\ log.op = "load_save_payload" /\ log.previous.exists) =>
        /\ log.ret.found
        /\ log.ret.payload \in {log.previous.text.value, log.data}

----------------------------------------------------------------------------
(* A load that fails *)

\* C40: a load whose load_from_payload raises part-way leaves the roster, the
\* order, selected_id, active_turn_id and turn_in_progress as they were
\* before the load.
C40_LoadAllOrNothing ==
    [][ (log'.op = "do_load_selected" /\ log'.outcome = "raised") =>
            UNCHANGED session ]_vars

----------------------------------------------------------------------------
(* The active turn *)

\* C32: on a page under any sequence of handler calls and loads,
\* turn_in_progress implies that a combatant holds the active turn, the
\* holder of the active turn is a combatant of the roster, and deleting the
\* holder resets active_turn_id to None and turn_in_progress to FALSE.
C32_ActiveTurn ==
    /\ [](turn_in_progress => active_turn_id # None)
    /\ [](active_turn_id # None => active_turn_id \in DOMAIN state.enemies)
    /\ [][ (log'.op = "ui_delete_item" /\ active_turn_id # None
            /\ active_turn_id \notin DOMAIN state'.enemies) =>
                (active_turn_id' = None /\ ~turn_in_progress') ]_vars

\* a load of a payload with two combatants, turn_in_progress set and an active
\* turn that names neither: the page holds the loaded roster and no active turn
C32_Witness ==
    /\ log # Idle /\ log.op = "do_load_selected" /\ log.outcome = "done"
    /\ DOMAIN state.enemies = {"a", "b"}
    /\ "last_drawn" \in DOMAIN state.enemies["b"]
    /\ active_turn_id = None /\ ~turn_in_progress
    /\ selected_id = "b"

====
